---- MODULE Spec2Model ----
(***************************************************************************)
(* A model of the acquire-rs rules engine (crate `acquire`): the grid and  *)
(* chain-formation engine of grid.rs and the turn/phase state machine of   *)
(* lib.rs, with the stock ledger of stock.rs and the price and bonus       *)
(* calculator of money.rs.                                                 *)
(***************************************************************************)
EXTENDS Integers, Sequences, FiniteSets, TLC

\* ------------------------------------------------------------------------
\* Program constants
\* ------------------------------------------------------------------------

SAFE_CHAIN_SIZE == 11

GAME_ENDING_CHAIN_SIZE == 41

\* the hand size hard-coded in player_trade_in_illegal_tiles
HAND_REFILL_SIZE == 6

CHAIN_ARRAY ==
    <<"Tower", "Luxor", "American", "Worldwide", "Festival", "Continental", "Imperial">>

Chains == {CHAIN_ARRAY[i] : i \in DOMAIN CHAIN_ARRAY}

as_index(chain) == CHOOSE i \in DOMAIN CHAIN_ARRAY : CHAIN_ARRAY[i] = chain

CHAIN_TIER_MAP ==
    [c \in Chains |->
        CASE c \in {"Tower", "Luxor"} -> 0
          [] c \in {"American", "Worldwide", "Festival"} -> 1
          [] OTHER -> 2]

\* ------------------------------------------------------------------------
\* Slots.  Empty(legality) is written "Empty" \o legality; Chain(c) is the
\* chain's name.
\* ------------------------------------------------------------------------

EmptyLegal == "EmptyLegal"
EmptyTemporarilyIllegal == "EmptyTemporarilyIllegal"
EmptyPermanentIllegal == "EmptyPermanentIllegal"
NoChain == "NoChain"
Limbo == "Limbo"

EmptySlots == {EmptyLegal, EmptyTemporarilyIllegal, EmptyPermanentIllegal}

IsEmpty(slot) == slot \in EmptySlots

IsChain(slot) == slot \in Chains

None == "None"

\* Option::None of a player id and of a point
NoPlayer == 0 - 1
NoPoint == <<0 - 1, 0 - 1>>

\* Option::None of num_remaining_players_to_merge
NoCount == 0 - 1

\* ------------------------------------------------------------------------
\* Sequence helpers
\* ------------------------------------------------------------------------

Range(s) == {s[i] : i \in DOMAIN s}

RECURSIVE SeqSum(_)
SeqSum(s) == IF s = <<>> THEN 0 ELSE Head(s) + SeqSum(Tail(s))

Max(S) == CHOOSE m \in S : \A e \in S : e <= m

\* Iterator::filter on a Vec
Filter(s, keep(_)) ==
    LET kept == {i \in DOMAIN s : keep(s[i])}
    IN [k \in 1..Cardinality(kept) |->
            s[CHOOSE i \in kept : Cardinality({j \in kept : j <= i}) = k]]

\* itertools unique(): first occurrences, in order
RECURSIVE Unique(_)
Unique(s) ==
    IF s = <<>> THEN <<>>
    ELSE LET front == Unique(SubSeq(s, 1, Len(s) - 1))
             last == s[Len(s)]
         IN IF last \in Range(front) THEN front ELSE Append(front, last)

\* Iterator::map on a Vec
Map(s, F(_)) == [i \in DOMAIN s |-> F(s[i])]

\* Vec::remove(idx), 1-based
RemoveAt(s, idx) == SubSeq(s, 1, idx - 1) \o SubSeq(s, idx + 1, Len(s))

\* position of the first element equal to e
Position(s, e) == CHOOSE i \in DOMAIN s : s[i] = e /\ \A j \in 1..(i - 1) : s[j] # e

\* slice::sort_by_key: a stable sort, ascending in key
InsertByKey(sorted, e, key(_)) ==
    LET k == Cardinality({i \in DOMAIN sorted : key(sorted[i]) <= key(e)})
    IN SubSeq(sorted, 1, k) \o <<e>> \o SubSeq(sorted, k + 1, Len(sorted))

\* F applied to x, with x evaluated first: a loop that threads a value through
\* its iterations computes each iteration before it enters the next
Bind(x, F(_)) == CASE x = x -> F(x)

SortByKey(s, key(_)) ==
    LET S[i \in 0..Len(s)] ==
            IF i = 0 THEN <<>> ELSE InsertByKey(S[i - 1], s[i], key)
    IN S[Len(s)]

\* ------------------------------------------------------------------------
\* Grid (grid.rs)
\* ------------------------------------------------------------------------

\* Points the slot map can hold an entry for: the board and the ring of
\* coordinates around it, which the legality updates of border tiles reach.
\* Every other coordinate is absent from the map.
MapPoints(width, height) == {<<x, y>> : x \in (0 - 1)..width, y \in (0 - 1)..height}

BoardPoints(width, height) == {<<x, y>> : x \in 0..(width - 1), y \in 0..(height - 1)}

\* Grid::new
GridNew(width, height) ==
    [width |-> width,
     height |-> height,
     data |-> [pt \in MapPoints(width, height) |-> EmptyLegal],
     chain_sizes |-> [c \in Chains |-> 0],
     previously_placed_tile_pt |-> NoPoint]

all_chains_are_safe(g) == \A c \in Chains : g.chain_sizes[c] >= SAFE_CHAIN_SIZE

num_safe_chains(g) == Cardinality({c \in Chains : g.chain_sizes[c] >= SAFE_CHAIN_SIZE})

game_ending_chain_exists(g) == \E c \in Chains : g.chain_sizes[c] >= GAME_ENDING_CHAIN_SIZE

is_pt_out_of_bounds(g, pt) ==
    \/ pt[1] < 0
    \/ pt[2] < 0
    \/ pt[1] > g.width
    \/ pt[2] > g.height

\* Grid::get: an absent entry reads as Empty(Legal)
Get(g, pt) == IF pt \in DOMAIN g.data THEN g.data[pt] ELSE EmptyLegal

chain_size(g, chain) == g.chain_sizes[chain]

\* set_slot that does not count the chain it overwrites out
set_slot_without_removal(g, pt, slot) ==
    LET added == IF IsChain(slot) THEN [g.chain_sizes EXCEPT ![slot] = @ + 1]
                 ELSE g.chain_sizes
    IN [g EXCEPT !.data = [@ EXCEPT ![pt] = slot], !.chain_sizes = added]

set_slot(g, pt, slot) ==
    LET existing_in_slot == Get(g, pt)
        removed == IF IsChain(existing_in_slot)
                   THEN [g.chain_sizes EXCEPT ![existing_in_slot] = @ - 1]
                   ELSE g.chain_sizes
        added == IF IsChain(slot) THEN [removed EXCEPT ![slot] = @ + 1] ELSE removed
    IN [g EXCEPT !.data = [@ EXCEPT ![pt] = slot], !.chain_sizes = added]

neighbouring_points(pt) ==
    << <<pt[1], pt[2] + 1>>, <<pt[1] + 1, pt[2]>>, <<pt[1], pt[2] - 1>>, <<pt[1] - 1, pt[2]>> >>

neighbours(g, pt) == [i \in 1..4 |-> Get(g, neighbouring_points(pt)[i])]

chains_in_slots(slots) == Unique(Filter(slots, IsChain))

num_nochains_chains_in_slots(slots) == Cardinality({i \in DOMAIN slots : slots[i] = NoChain})

existing_chains(g) == Filter(CHAIN_ARRAY, LAMBDA c : g.chain_sizes[c] > 0)

available_chains(g) == Filter(CHAIN_ARRAY, LAMBDA c : g.chain_sizes[c] = 0)

num_available_chains(g) == Cardinality({c \in Chains : g.chain_sizes[c] = 0})

permanently_illegal_possible(g) == num_safe_chains(g) > 1

temporary_illegal_possible(g) == num_available_chains(g) = 0

\* Grid::_is_illegal_tile: <<illegal, permanent>>
is_illegal_tile(g, pt) ==
    LET nbs == neighbours(g, pt)
        neighbouring_chains == chains_in_slots(nbs)
        num_neighbouring_chains == Len(neighbouring_chains)
        num_safe == Cardinality({c \in Range(neighbouring_chains) :
                                    chain_size(g, c) >= SAFE_CHAIN_SIZE})
    IN IF ~permanently_illegal_possible(g) /\ ~temporary_illegal_possible(g)
       THEN <<FALSE, FALSE>>
       ELSE IF num_neighbouring_chains >= 2
       THEN IF permanently_illegal_possible(g) /\ num_safe > 1
            THEN <<TRUE, TRUE>>
            ELSE <<FALSE, FALSE>>
       ELSE IF num_neighbouring_chains = 0
       THEN IF /\ temporary_illegal_possible(g)
               /\ num_nochains_chains_in_slots(nbs) > 0
               /\ num_available_chains(g) = 0
            THEN <<TRUE, FALSE>>
            ELSE <<FALSE, FALSE>>
       ELSE <<FALSE, FALSE>>

\* the slot written for the answer <<illegal, permanent>> of _is_illegal_tile
set_legality(g, pt, r) ==
    IF r[1]
    THEN set_slot(g, pt, IF r[2] THEN EmptyPermanentIllegal ELSE EmptyTemporarilyIllegal)
    ELSE g

update_legality_of_slot(g, pt) ==
    IF Get(g, pt) \in {EmptyLegal, EmptyTemporarilyIllegal}
    THEN set_legality(g, pt, is_illegal_tile(g, pt))
    ELSE g

\* a for loop of update_legality_of_slot over a list of points; while neither
\* kind of illegality is possible _is_illegal_tile is false for every slot and
\* the loop leaves the grid as it is
RECURSIVE update_legality_of_slots(_, _)
update_legality_of_slots(g, pts) ==
    IF ~permanently_illegal_possible(g) /\ ~temporary_illegal_possible(g) THEN g
    ELSE IF pts = <<>> THEN g
    ELSE IF Len(pts) = 1 THEN update_legality_of_slot(g, pts[1])
    ELSE update_legality_of_slots(
            update_legality_of_slots(g, SubSeq(pts, 1, Len(pts) \div 2)),
            SubSeq(pts, Len(pts) \div 2 + 1, Len(pts)))

update_legality_of_neighbours(g, pt) == update_legality_of_slots(g, neighbouring_points(pt))

RECURSIVE update_chain_of_points(_, _, _)
update_chain_of_points(g, pts, chain) ==
    IF pts = <<>> THEN g
    ELSE LET g2 == IF Get(g, Head(pts)) \in {Limbo, NoChain}
                   THEN set_slot(g, Head(pts), chain)
                   ELSE g
         IN update_chain_of_points(g2, Tail(pts), chain)

update_chain_of_neighbours(g, pt, chain) ==
    update_chain_of_points(g, neighbouring_points(pt), chain)

\* PlaceTileResult
Result(kind, allow_trade_in, tied_chains, mergers) ==
    [kind |-> kind, allow_trade_in |-> allow_trade_in,
     tied_chains |-> tied_chains, mergers |-> mergers]

\* MergingChains
MergingChains(merging_chain, defunct_chain, num) ==
    [merging_chain |-> merging_chain, defunct_chain |-> defunct_chain,
     num_remaining_players_to_merge |-> num]

\* the merger branch that takes the first of the largest chains as survivor
place_merger_without_tiebreak(g, pt, neighbouring_chains) ==
    LET largest_chain_size == Max({chain_size(g, c) : c \in Range(neighbouring_chains)})
        largest_chains == Filter(neighbouring_chains,
                                 LAMBDA c : chain_size(g, c) = largest_chain_size)
        largest_chain == largest_chains[1]
        other_chains == SortByKey(Filter(neighbouring_chains, LAMBDA c : c # largest_chain),
                                  LAMBDA c : g.chain_sizes[c])
        merger_list == [i \in DOMAIN other_chains |->
                            MergingChains(largest_chain, other_chains[i], NoCount)]
        g1 == [set_slot(g, pt, Limbo) EXCEPT !.previously_placed_tile_pt = pt]
    IN [grid |-> g1, result |-> Result("Merge", FALSE, <<>>, merger_list)]

\* the merger branch that takes the first neighbouring chain as survivor
place_merger_first_neighbour_survives(g, pt, neighbouring_chains) ==
    [grid |-> [set_slot(g, pt, Limbo) EXCEPT !.previously_placed_tile_pt = pt],
     result |-> Result("Merge", FALSE, <<>>,
                       [i \in 1..(Len(neighbouring_chains) - 1) |->
                            MergingChains(neighbouring_chains[1], neighbouring_chains[i + 1],
                                          NoCount)])]

\* the merger branch of Grid::place (two or more neighbouring chains)
place_merger(g, pt, neighbouring_chains) ==
    LET largest_chain_size == Max({chain_size(g, c) : c \in Range(neighbouring_chains)})
        largest_chains == Filter(neighbouring_chains,
                                 LAMBDA c : chain_size(g, c) = largest_chain_size)
        largest_chain == largest_chains[1]
        other_chains == SortByKey(Filter(neighbouring_chains, LAMBDA c : c # largest_chain),
                                  LAMBDA c : g.chain_sizes[c])
        merger_list == [i \in DOMAIN other_chains |->
                            MergingChains(largest_chain, other_chains[i], NoCount)]
        g1 == [set_slot(g, pt, Limbo) EXCEPT !.previously_placed_tile_pt = pt]
    IN IF Len(largest_chains) > 1
       THEN [grid |-> g1, result |-> Result("DecideTieBreak", FALSE, largest_chains, <<>>)]
       ELSE [grid |-> g1, result |-> Result("Merge", FALSE, <<>>, merger_list)]

\* the branch of Grid::place without neighbouring chains
place_nochain(g, pt) ==
    [grid |-> update_legality_of_neighbours(
                [set_slot(g, pt, NoChain) EXCEPT !.previously_placed_tile_pt = pt], pt),
     result |-> IF num_nochains_chains_in_slots(neighbours(g, pt)) > 0
                THEN Result("SelectAvailableChain", FALSE, <<>>, <<>>)
                ELSE Result("Proceed", FALSE, <<>>, <<>>)]

\* the growth of a chain by the placed tile alone
place_grow_alone(g, pt, chain) ==
    [grid |-> [update_legality_of_neighbours(set_slot(g, pt, chain), pt)
                EXCEPT !.previously_placed_tile_pt = pt],
     result |-> Result("Proceed", FALSE, <<>>, <<>>)]

\* the branch of Grid::place with exactly one neighbouring chain
place_grow(g, pt, chain) ==
    [grid |-> [update_chain_of_neighbours(
                    update_legality_of_neighbours(set_slot(g, pt, chain), pt), pt, chain)
                EXCEPT !.previously_placed_tile_pt = pt],
     result |-> Result("Proceed", FALSE, <<>>, <<>>)]

\* Grid::place without the test of the legality of the slot
place_on_any_slot(g, pt) ==
    IF is_pt_out_of_bounds(g, pt)
    THEN [grid |-> g, result |-> Result("Panic", FALSE, <<>>, <<>>)]
    ELSE IF Len(chains_in_slots(neighbours(g, pt))) >= 2
    THEN place_merger(g, pt, chains_in_slots(neighbours(g, pt)))
    ELSE IF Len(chains_in_slots(neighbours(g, pt))) = 0 THEN place_nochain(g, pt)
    ELSE place_grow(g, pt, chains_in_slots(neighbours(g, pt))[1])

\* Grid::place; the out-of-bounds panic is the result "Panic"
place(g, pt) ==
    LET neighbouring_chains == chains_in_slots(neighbours(g, pt))
        num_neighbouring_chains == Len(neighbouring_chains)
    IN IF is_pt_out_of_bounds(g, pt)
       THEN [grid |-> g, result |-> Result("Panic", FALSE, <<>>, <<>>)]
       ELSE IF Get(g, pt) = EmptyTemporarilyIllegal
       THEN [grid |-> g, result |-> Result("Illegal", FALSE, <<>>, <<>>)]
       ELSE IF Get(g, pt) = EmptyPermanentIllegal
       THEN [grid |-> g, result |-> Result("Illegal", TRUE, <<>>, <<>>)]
       ELSE IF num_neighbouring_chains >= 2 THEN place_merger(g, pt, neighbouring_chains)
       ELSE IF num_neighbouring_chains = 0 THEN place_nochain(g, pt)
       ELSE place_grow(g, pt, neighbouring_chains[1])

\* HashMap iteration: the points of S in the order the map yields them.
\* The order is unspecified; `order` picks one.
IterationOrders == {"ascending", "descending"}

SeqOfPoints(S, order) ==
    LET rank(pt) == IF order = "ascending" THEN pt[2] * 1000 + pt[1]
                    ELSE 0 - (pt[2] * 1000 + pt[1])
    IN [k \in 1..Cardinality(S) |->
            CHOOSE e \in S : Cardinality({o \in S : rank(o) <= rank(e)}) = k]

\* update_legality_of_neighbours for each point of a list
RECURSIVE update_legality_of_neighbours_of(_, _)
update_legality_of_neighbours_of(g, pts) ==
    IF ~permanently_illegal_possible(g) /\ ~temporary_illegal_possible(g) THEN g
    ELSE IF pts = <<>> THEN g
    ELSE IF Len(pts) = 1 THEN update_legality_of_neighbours(g, pts[1])
    ELSE update_legality_of_neighbours_of(
            update_legality_of_neighbours_of(g, SubSeq(pts, 1, Len(pts) \div 2)),
            SubSeq(pts, Len(pts) \div 2 + 1, Len(pts)))

update_legality_of_all_nochains(g, order) ==
    LET nochain_pts == SeqOfPoints({pt \in DOMAIN g.data : g.data[pt] \in {NoChain, Limbo}}, order)
    IN update_legality_of_neighbours_of(g, nochain_pts)

\* one iteration of the while loop of Grid::fill_chain, on the loop's state
\* <<grid, stack, visited, empty_surrounding_pts>>
\* the iteration that fills a permanently illegal slot like a tile without chain
fill_step_over_illegal(st, chain) ==
    LET g == st[1]
        pt == Head(st[2])
        rest == Tail(st[2])
        visited1 == st[3] \cup {pt}
        slot == Get(g, pt)
    IN IF st[2] = <<>> THEN st
       ELSE IF IsEmpty(slot) /\ slot # EmptyPermanentIllegal
       THEN <<g, rest, visited1, Append(st[4], pt)>>
       ELSE <<IF slot = chain THEN g ELSE set_slot(g, pt, chain),
               rest \o Filter(neighbouring_points(pt), LAMBDA n : n \notin visited1),
               visited1, st[4]>>

fill_step(st, chain) ==
    LET g == st[1]
        pt == Head(st[2])
        rest == Tail(st[2])
        visited1 == st[3] \cup {pt}
        slot == Get(g, pt)
    IN IF st[2] = <<>> THEN st
       ELSE IF IsEmpty(slot)
       THEN <<g, rest, visited1,
               IF slot = EmptyPermanentIllegal THEN st[4] ELSE Append(st[4], pt)>>
       ELSE <<IF slot = chain THEN g ELSE set_slot(g, pt, chain),
               rest \o Filter(neighbouring_points(pt), LAMBDA n : n \notin visited1),
               visited1, st[4]>>

\* n iterations of the loop (none once the stack is empty)
RECURSIVE fill_steps(_, _, _)
fill_steps(st, chain, n) ==
    IF n = 0 \/ st[2] = <<>> THEN st
    ELSE IF n = 1 THEN fill_step(st, chain)
    ELSE fill_steps(fill_steps(st, chain, n \div 2), chain, n - (n \div 2))

\* the while loop of Grid::fill_chain, run until the stack is empty: a point
\* is pushed at most once by each of its four neighbours
fill_loop(g, stack, visited, empty_surrounding_pts, chain) ==
    LET st == fill_steps(<<g, stack, visited, empty_surrounding_pts>>, chain,
                         4 * Cardinality(DOMAIN g.data) + 1)
    IN <<st[1], st[4]>>

\* after the loop: the legality of the empty slots around the filled chain,
\* `filled` being <<grid, empty_surrounding_pts>>
fill_chain_surroundings(filled) ==
    IF permanently_illegal_possible(filled[1])
    THEN update_legality_of_slots(filled[1], filled[2])
    ELSE filled[1]

\* and then the legality around the tiles without chain
fill_chain_nochains(g, order) ==
    IF temporary_illegal_possible(g) THEN update_legality_of_all_nochains(g, order) ELSE g

\* fill_chain that makes the tile of pt a tile of the chain and goes no further
fill_placed_tile(g, pt, chain, order) ==
    IF IsEmpty(Get(g, pt)) THEN g ELSE set_slot(g, pt, chain)

fill_chain(g, pt, chain, order) ==
    fill_chain_nochains(fill_chain_surroundings(fill_loop(g, <<pt>>, {}, <<>>, chain)), order)

\* ------------------------------------------------------------------------
\* Stock ledger (stock.rs)
\* ------------------------------------------------------------------------

StocksNew(initial_value) == [c \in Chains |-> initial_value]

amount(stocks, chain) == stocks[chain]

has_amount(stocks, chain, n) == stocks[chain] >= n

has_any(stocks, chain) == has_amount(stocks, chain, 1)

deposit(stocks, chain, n) == IF n = 0 THEN stocks ELSE [stocks EXCEPT ![chain] = @ + n]

\* Stocks::withdraw returns Ok exactly when withdraw_ok holds, and leaves the
\* ledger unchanged otherwise
withdraw_ok(stocks, chain, withdraw_amount) == ~(withdraw_amount > stocks[chain])

withdraw(stocks, chain, withdraw_amount) ==
    IF withdraw_amount > stocks[chain] THEN stocks
    ELSE [stocks EXCEPT ![chain] = @ - withdraw_amount]

\* ------------------------------------------------------------------------
\* Prices and bonuses (money.rs)
\* ------------------------------------------------------------------------

chain_size_value(size) ==
    IF size <= 1 THEN 0
    ELSE IF size <= 5 THEN size * 100
    ELSE IF size <= 10 THEN 600
    ELSE IF size <= 20 THEN 700
    ELSE IF size <= 30 THEN 800
    ELSE IF size <= 40 THEN 900
    ELSE 1000

chain_value(chain, size) == chain_size_value(size) + CHAIN_TIER_MAP[chain] * 100

\* the amount as it is, not rounded
not_rounded(num) == num

round_up_to_nearest_hundred(num) == ((num + 99) \div 100) * 100

PlayerIds(game) == DOMAIN game.players

\* Acquire::chain_bonus: the map player id -> bonus
chain_bonus(game, chain) ==
    LET held(id) == amount(game.players[id].stocks, chain)
        players_with_stock == {id \in PlayerIds(game) : has_any(game.players[id].stocks, chain)}
        most_stock_held == Max({held(id) : id \in players_with_stock})
        others == {held(id) : id \in {i \in players_with_stock : held(i) # most_stock_held}}
        second_most_stock_held == IF others = {} THEN 0 ELSE Max(others)
        players_with_most_stock == {id \in players_with_stock : held(id) = most_stock_held}
        players_with_second_most_stock ==
            {id \in players_with_stock :
                second_most_stock_held # 0 /\ held(id) = second_most_stock_held}
        value == chain_value(chain, chain_size(game.grid, chain))
        total_major_bonus == value * 10
        total_minor_bonus == value * 5
    IN IF players_with_stock = {} THEN <<>>
       ELSE IF most_stock_held = 0 THEN <<>>
       ELSE IF \/ Cardinality(players_with_most_stock) > 1
               \/ players_with_second_most_stock = {}
       THEN [id \in players_with_most_stock |->
                round_up_to_nearest_hundred(
                    total_major_bonus \div Cardinality(players_with_most_stock))]
       ELSE [id \in players_with_most_stock \cup players_with_second_most_stock |->
                IF id \in players_with_most_stock THEN total_major_bonus
                ELSE round_up_to_nearest_hundred(
                        total_minor_bonus \div Cardinality(players_with_second_most_stock))]

\* ------------------------------------------------------------------------
\* Game state machine (lib.rs).  A game value is the record of the fields of
\* Acquire, with `panicked` recording that the engine aborted.
\* ------------------------------------------------------------------------

\* Phase; the payload fields are meaningful in the Merge phase only
Phase(kind, merging_player_id, sub, tied_chains, mergers_remaining) ==
    [kind |-> kind, merging_player_id |-> merging_player_id, phase |-> sub,
     tied_chains |-> tied_chains, mergers_remaining |-> mergers_remaining]

AwaitingTilePlacement == Phase("AwaitingTilePlacement", NoPlayer, None, <<>>, <<>>)
AwaitingChainCreationSelection == Phase("AwaitingChainCreationSelection", NoPlayer, None, <<>>, <<>>)
AwaitingStockPurchase == Phase("AwaitingStockPurchase", NoPlayer, None, <<>>, <<>>)
AwaitingGameTerminationDecision == Phase("AwaitingGameTerminationDecision", NoPlayer, None, <<>>, <<>>)

\* Action
Action(type, player, tile, chain, buys, sell, trade_in, terminate) ==
    [type |-> type, player |-> player, tile |-> tile, chain |-> chain, buys |-> buys,
     sell |-> sell, trade_in |-> trade_in, terminate |-> terminate]

PlaceTileAction(player, tile) == Action("PlaceTile", player, tile, None, <<>>, 0, 0, FALSE)
SelectChainToCreateAction(player, chain) ==
    Action("SelectChainToCreate", player, NoPoint, chain, <<>>, 0, 0, FALSE)
SelectChainForTiebreakAction(player, chain) ==
    Action("SelectChainForTiebreak", player, NoPoint, chain, <<>>, 0, 0, FALSE)
PurchaseStockAction(player, buys) == Action("PurchaseStock", player, NoPoint, None, buys, 0, 0, FALSE)
DecideMergeAction(player, sell, trade_in) ==
    Action("DecideMerge", player, NoPoint, None, <<>>, sell, trade_in, FALSE)
TerminateAction(player, terminate) ==
    Action("Terminate", player, NoPoint, None, <<>>, 0, 0, terminate)

\* no action applied yet
NoAction == Action("None", NoPlayer, NoPoint, None, <<>>, 0, 0, FALSE)

NumPlayers(game) == Cardinality(DOMAIN game.players)

\* Acquire::new with the shuffled tile list `deck`
AcquireNew(deck, options) ==
    [phase |-> AwaitingTilePlacement,
     players |-> [id \in 0..(options.num_players - 1) |->
                    [id |-> id,
                     tiles |-> SubSeq(deck, id * options.num_tiles + 1,
                                      (id + 1) * options.num_tiles),
                     stocks |-> StocksNew(0),
                     money |-> options.starting_money]],
     tiles |-> SubSeq(deck, options.num_players * options.num_tiles + 1, Len(deck)),
     stocks |-> StocksNew(options.num_stock),
     grid |-> GridNew(options.grid_width, options.grid_height),
     current_player_id |-> 0,
     turn |-> 1,
     step |-> 0,
     terminated |-> FALSE,
     panicked |-> FALSE]

\* every tile of the board, row by row, as Acquire::new lists them before the shuffle
AllTiles(width, height) ==
    [i \in 1..(width * height) |-> <<(i - 1) % width, (i - 1) \div width>>]

Panic(game) == [game EXCEPT !.panicked = TRUE]

next_player_id(game) == (game.current_player_id + 1) % NumPlayers(game)

go_next_turn(game) ==
    [game EXCEPT !.current_player_id = next_player_id(game), !.turn = @ + 1]

player_ids_in_order(game, starting_player_id) ==
    [n \in 1..NumPlayers(game) |-> (starting_player_id + n - 1) % NumPlayers(game)]

num_players_with_stock_in_chain(game, chain) ==
    Cardinality({id \in PlayerIds(game) : has_any(game.players[id].stocks, chain)})

\* Iterator::find on player ids: the first element satisfying `found`, or None
Find(s, found(_)) ==
    LET hits == Filter(s, found) IN IF hits = <<>> THEN NoPlayer ELSE hits[1]

\* Acquire::next_merging_player_id panics in the phases it has no arm for
next_merging_player_id_panics(game) ==
    game.phase.kind \notin {"AwaitingTilePlacement", "Merge"}

next_merging_player_id(game, chain) ==
    IF game.phase.kind = "AwaitingTilePlacement"
    THEN Find(player_ids_in_order(game, game.current_player_id),
              LAMBDA id : has_any(game.players[id].stocks, chain))
    ELSE IF game.phase.kind = "Merge"
    THEN Find(player_ids_in_order(game, game.phase.merging_player_id),
              LAMBDA id : /\ id # game.phase.merging_player_id
                          /\ id # game.current_player_id
                          /\ has_any(game.players[id].stocks, chain))
    ELSE NoPlayer

\* the for loop of provide_bonuses over the entries of the bonus map
RECURSIVE pay_bonuses(_, _, _)
pay_bonuses(game, bonuses, ids) ==
    IF ids = <<>> THEN game
    ELSE pay_bonuses([game EXCEPT !.players[Head(ids)].money = @ + bonuses[Head(ids)]],
                     bonuses, Tail(ids))

RECURSIVE SeqOfIds(_, _)
SeqOfIds(S, order) ==
    IF S = {} THEN <<>>
    ELSE LET m == IF order = "ascending" THEN CHOOSE e \in S : \A o \in S : e <= o
                  ELSE CHOOSE e \in S : \A o \in S : e >= o
         IN <<m>> \o SeqOfIds(S \ {m}, order)

\* provide_bonuses that pays the first entry the bonus map yields and stops
provide_first_bonus(game, chain, order) ==
    LET bonuses == chain_bonus(game, chain)
    IN pay_bonuses(game, bonuses,
                   IF DOMAIN bonuses = {} THEN <<>>
                   ELSE <<Head(SeqOfIds(DOMAIN bonuses, order))>>)

\* the bonus map paid out in the order the map yields its entries
pay_bonus_map(game, bonuses, order) == pay_bonuses(game, bonuses, SeqOfIds(DOMAIN bonuses, order))

provide_bonuses(game, chain, order) == pay_bonus_map(game, chain_bonus(game, chain), order)

RECURSIVE provide_bonuses_of(_, _, _)
provide_bonuses_of(game, chains, order) ==
    IF chains = <<>> THEN game
    ELSE Bind(provide_bonuses(game, Head(chains), order),
              LAMBDA paid : provide_bonuses_of(paid, Tail(chains), order))

provide_final_bonuses(game, order) == provide_bonuses_of(game, CHAIN_ARRAY, order)

\* winners that names the first of the richest players only
first_winner(game) ==
    <<CHOOSE id \in PlayerIds(game) :
        /\ \A other \in PlayerIds(game) : game.players[other].money <= game.players[id].money
        /\ \A other \in PlayerIds(game) :
                game.players[other].money = game.players[id].money => id <= other>>

\* Acquire::winners: the ids of the players with the most money, in the
\* order of the players
winners(game) ==
    Filter([i \in 1..NumPlayers(game) |-> i - 1],
           LAMBDA id : game.players[id].money =
                            Max({game.players[other].money : other \in PlayerIds(game)}))

\* Mcts::outcome of a terminated game; no winner is a panic
outcome(game) ==
    IF ~game.terminated THEN [kind |-> "None", players |-> <<>>]
    ELSE IF Len(winners(game)) = 1 THEN [kind |-> "Winner", players |-> winners(game)]
    ELSE IF Len(winners(game)) > 1 THEN [kind |-> "Draw", players |-> winners(game)]
    ELSE [kind |-> "Panic", players |-> <<>>]

may_terminate(game) == all_chains_are_safe(game.grid) \/ game_ending_chain_exists(game.grid)

\* player_take_tile that leaves the drawn tile in the bag
player_take_tile_keeping_bag(game, player_id) ==
    IF game.tiles # <<>>
    THEN [game EXCEPT !.players[player_id].tiles = Append(@, game.tiles[Len(game.tiles)])]
    ELSE game

\* player_take_tile that draws a second tile when the bag has one
player_take_two_tiles(game, player_id) ==
    IF Len(game.tiles) >= 2
    THEN [game EXCEPT !.tiles = SubSeq(@, 1, Len(@) - 2),
                      !.players[player_id].tiles =
                          @ \o <<game.tiles[Len(game.tiles)], game.tiles[Len(game.tiles) - 1]>>]
    ELSE IF game.tiles # <<>>
    THEN [game EXCEPT !.tiles = SubSeq(@, 1, Len(@) - 1),
                      !.players[player_id].tiles = Append(@, game.tiles[Len(game.tiles)])]
    ELSE game

player_take_tile(game, player_id) ==
    IF game.tiles # <<>>
    THEN [game EXCEPT !.tiles = SubSeq(@, 1, Len(@) - 1),
                      !.players[player_id].tiles = Append(@, game.tiles[Len(game.tiles)])]
    ELSE game

\* the draw loop of player_trade_in_illegal_tiles
RECURSIVE draw_tiles(_, _, _)
draw_tiles(game, player_id, tiles_to_draw) ==
    IF tiles_to_draw = 0 THEN game
    ELSE draw_tiles([game EXCEPT !.tiles = SubSeq(@, 1, Len(@) - 1),
                                 !.players[player_id].tiles = Append(@, game.tiles[Len(game.tiles)])],
                    player_id, tiles_to_draw - 1)

\* Acquire::player_trade_in_illegal_tiles (the build without cfg(test)): a hand
\* tile on an occupied slot panics, and so does a hand of more than six tiles
player_trade_in_illegal_tiles(game, player_id) ==
    LET hand == game.players[player_id].tiles
        kept == Filter(hand, LAMBDA t : Get(game.grid, t) \in {EmptyLegal, EmptyTemporarilyIllegal})
        num_remaining_tiles == Len(game.tiles)
        required_tiles == HAND_REFILL_SIZE - Len(kept)
        tiles_to_draw == IF required_tiles < num_remaining_tiles THEN required_tiles
                         ELSE num_remaining_tiles
    IN IF \E i \in DOMAIN hand : ~IsEmpty(Get(game.grid, hand[i])) THEN Panic(game)
       ELSE IF required_tiles < 0 THEN Panic([game EXCEPT !.players[player_id].tiles = kept])
       ELSE draw_tiles([game EXCEPT !.players[player_id].tiles = kept], player_id, tiles_to_draw)

\* Acquire::player_has_any_valid_tiles panics when the scan meets a tile on an
\* occupied slot before it finds a legal one
player_has_any_valid_tiles_panics(game, player_id) ==
    LET hand == game.players[player_id].tiles
        legal == {i \in DOMAIN hand : Get(game.grid, hand[i]) = EmptyLegal}
        placed == {i \in DOMAIN hand : ~IsEmpty(Get(game.grid, hand[i]))}
    IN \E i \in placed : \A j \in legal : i < j

player_has_any_valid_tiles(game, player_id) ==
    LET hand == game.players[player_id].tiles
    IN \E i \in DOMAIN hand : Get(game.grid, hand[i]) = EmptyLegal

\* the loop that gives up after two rounds without ending the game
RECURSIVE move_loop_without_end(_, _, _)
move_loop_without_end(game, count, order) ==
    LET g1 == go_next_turn([game EXCEPT !.phase = AwaitingTilePlacement])
        valid == player_has_any_valid_tiles(g1, g1.current_player_id)
        g2 == player_trade_in_illegal_tiles(g1, g1.current_player_id)
    IN IF player_has_any_valid_tiles_panics(g1, g1.current_player_id) THEN Panic(g1)
       ELSE IF valid THEN g1
       ELSE IF g2.panicked THEN g2
       ELSE IF count + 1 = NumPlayers(game) * 2 THEN g2
       ELSE move_loop_without_end(g2, count + 1, order)

\* the loop of Acquire::move_to_next_player_who_can_play_a_tile
RECURSIVE move_loop(_, _, _)
move_loop(game, count, order) ==
    LET g1 == go_next_turn([game EXCEPT !.phase = AwaitingTilePlacement])
        valid == player_has_any_valid_tiles(g1, g1.current_player_id)
        g2 == player_trade_in_illegal_tiles(g1, g1.current_player_id)
    IN IF player_has_any_valid_tiles_panics(g1, g1.current_player_id) THEN Panic(g1)
       ELSE IF valid THEN g1
       ELSE IF g2.panicked THEN g2
       ELSE IF count + 1 = NumPlayers(game) * 2
       THEN provide_final_bonuses([g2 EXCEPT !.terminated = TRUE], order)
       ELSE move_loop(g2, count + 1, order)

\* the turn passes to the next player, whatever their hand
move_to_next_player(game, order) ==
    go_next_turn([game EXCEPT !.phase = AwaitingTilePlacement])

move_to_next_player_who_can_play_a_tile(game, order) == move_loop(game, 0, order)

\* ------------------------------------------------------------------------
\* Action enumeration (Acquire::actions)
\* ------------------------------------------------------------------------

\* tile_placement_actions panics (build without cfg(test)) on a hand tile whose
\* slot is occupied
tile_placement_panics(game) ==
    LET hand == game.players[game.current_player_id].tiles
    IN \E i \in DOMAIN hand : ~IsEmpty(Get(game.grid, hand[i]))

\* tile_placement_actions offering every tile of the hand
tile_placement_actions_of_whole_hand(game) ==
    Map(game.players[game.current_player_id].tiles,
        LAMBDA t : PlaceTileAction(game.current_player_id, t))

tile_placement_actions(game) ==
    Map(Filter(game.players[game.current_player_id].tiles,
               LAMBDA t : Get(game.grid, t) = EmptyLegal),
        LAMBDA t : PlaceTileAction(game.current_player_id, t))

chain_selection_actions(game) ==
    Map(available_chains(game.grid),
        LAMBDA chain : SelectChainToCreateAction(game.current_player_id, chain))

\* merge_combinations without the limit of the survivor's stock in the bank
merge_combinations_without_bank_limit(game, merging_player_id, merging_chains) ==
    LET num_defunct_stock == amount(game.players[merging_player_id].stocks,
                                    merging_chains.defunct_chain)
        C[r \in (0..num_defunct_stock) \X (0..num_defunct_stock)] ==
            IF r[1] = r[2]
            THEN [n \in 1..(((num_defunct_stock - r[1]) \div 2) + 1) |-> <<r[1], (n - 1) * 2>>]
            ELSE C[<<r[1], (r[1] + r[2]) \div 2>>] \o C[<<((r[1] + r[2]) \div 2) + 1, r[2]>>]
    IN C[<<0, num_defunct_stock>>]

\* Acquire::merge_combinations: the list of <<sell, trade_in>>
merge_combinations(game, merging_player_id, merging_chains) ==
    LET num_defunct_stock == amount(game.players[merging_player_id].stocks,
                                    merging_chains.defunct_chain)
        num_merging_stock_remaining == amount(game.stocks, merging_chains.merging_chain)
        trade_ins_possible(sell_amount) ==
            LET half_of_remaining_stock == (num_defunct_stock - sell_amount) \div 2
            IN IF half_of_remaining_stock < num_merging_stock_remaining
               THEN half_of_remaining_stock ELSE num_merging_stock_remaining
        \* the combinations pushed for the sell amounts lo..hi
        C[r \in (0..num_defunct_stock) \X (0..num_defunct_stock)] ==
            LET lo == r[1]
                hi == r[2]
                mid == (lo + hi) \div 2
            IN IF lo = hi
               THEN [n \in 1..(trade_ins_possible(lo) + 1) |-> <<lo, (n - 1) * 2>>]
               ELSE C[<<lo, mid>>] \o C[<<mid + 1, hi>>]
    IN C[<<0, num_defunct_stock>>]

merge_actions(game) ==
    IF game.phase.phase = "AwaitingTiebreakSelection"
    THEN Map(game.phase.tied_chains,
             LAMBDA chain : SelectChainForTiebreakAction(game.phase.merging_player_id, chain))
    ELSE Map(merge_combinations(game, game.phase.merging_player_id,
                                game.phase.mergers_remaining[1]),
             LAMBDA combo : DecideMergeAction(game.phase.merging_player_id, combo[1], combo[2]))

\* can_buy without the test of the stock left in the bank
RECURSIVE can_buy_unlimited_stock(_, _, _, _)
can_buy_unlimited_stock(game, buy_options, money, stock) ==
    IF buy_options = <<>> THEN TRUE
    ELSE IF Head(buy_options) = None
    THEN can_buy_unlimited_stock(game, Tail(buy_options), money, stock)
    ELSE LET cost == chain_value(Head(buy_options), chain_size(game.grid, Head(buy_options)))
         IN IF money < cost THEN FALSE
            ELSE can_buy_unlimited_stock(game, Tail(buy_options), money - cost, stock)

\* the closure can_buy of purchasable_combinations
RECURSIVE can_buy(_, _, _, _)
can_buy(game, buy_options, money, stock) ==
    IF buy_options = <<>> THEN TRUE
    ELSE IF Head(buy_options) = None THEN can_buy(game, Tail(buy_options), money, stock)
    ELSE LET chain == Head(buy_options)
             cost == chain_value(chain, chain_size(game.grid, chain))
         IN IF ~has_any(stock, chain) THEN FALSE
            ELSE IF money < cost THEN FALSE
            ELSE can_buy(game, Tail(buy_options), money - cost, withdraw(stock, chain, 1))

purchasable_combinations(game, purchasing_player_id) ==
    LET buy_options == Append(existing_chains(game.grid), None)
        n == Len(buy_options)
        \* the loops for i, for j in i.., for k in j..: the index triples
        \* i <= j <= k in lexicographic order
        J[r \in (1..n) \X (1..n)] ==
            [m \in 1..(n - r[2] + 1) |-> <<r[1], r[2], r[2] + m - 1>>]
            \o (IF r[2] = n THEN <<>> ELSE J[<<r[1], r[2] + 1>>])
        I[i \in 1..n] == J[<<i, i>>] \o (IF i = n THEN <<>> ELSE I[i + 1])
        ordered == I[1]
        combos == [m \in DOMAIN ordered |->
                    <<buy_options[ordered[m][1]], buy_options[ordered[m][2]],
                      buy_options[ordered[m][3]]>>]
    IN Filter(combos,
              LAMBDA c : can_buy(game, c, game.players[purchasing_player_id].money, game.stocks))

stock_purchase_actions(game) ==
    Map(purchasable_combinations(game, game.current_player_id),
        LAMBDA buys : PurchaseStockAction(game.current_player_id, buys))

\* game_termination_actions panics when the game may not terminate
game_termination_actions(game) ==
    IF ~may_terminate(game) THEN <<>>
    ELSE <<TerminateAction(game.current_player_id, TRUE),
           TerminateAction(game.current_player_id, FALSE)>>

\* Acquire::actions; a panic while enumerating yields no action
actions(game) ==
    IF game.panicked THEN <<>>
    ELSE IF game.phase.kind = "AwaitingTilePlacement"
    THEN IF tile_placement_panics(game) THEN <<>> ELSE tile_placement_actions(game)
    ELSE IF game.phase.kind = "AwaitingChainCreationSelection" THEN chain_selection_actions(game)
    ELSE IF game.phase.kind = "Merge" THEN merge_actions(game)
    ELSE IF game.phase.kind = "AwaitingStockPurchase" THEN stock_purchase_actions(game)
    ELSE game_termination_actions(game)

\* ------------------------------------------------------------------------
\* Transitions (Acquire::apply_action).  `self` is the state the action is
\* applied to; `order` is the iteration order of the engine's hash maps.
\* ------------------------------------------------------------------------

\* the Merge arm of PlaceTile; `game` already holds the placed tile
place_tile_merge(self, game, mergers0, order) ==
    LET annotated == [i \in DOMAIN mergers0 |->
                        [mergers0[i] EXCEPT !.num_remaining_players_to_merge =
                            num_players_with_stock_in_chain(self, mergers0[i].defunct_chain)]]
        mergers == Filter(annotated, LAMBDA m : m.num_remaining_players_to_merge # 0)
        first_defunct_chain == mergers[1].defunct_chain
        next_merging_player == next_merging_player_id(self, first_defunct_chain)
    IN IF mergers = <<>> THEN [game EXCEPT !.phase = AwaitingStockPurchase]
       ELSE IF next_merging_player_id_panics(self) THEN Panic(game)
       ELSE IF next_merging_player # NoPlayer
       THEN [provide_bonuses(game, first_defunct_chain, order) EXCEPT
                !.phase = Phase("Merge", next_merging_player, "AwaitingMergeDecision",
                                <<>>, mergers)]
       ELSE [game EXCEPT !.phase = AwaitingStockPurchase]

\* the branch on the grid's result without the shortcut past the purchase
place_tile_result_with_purchase(self, taken, placed, player_id, order) ==
    LET game == [taken EXCEPT !.grid = placed.grid]
        result == placed.result
    IN IF result.kind = "Proceed"
       THEN [game EXCEPT !.phase = AwaitingStockPurchase]
       ELSE IF result.kind = "SelectAvailableChain"
       THEN [game EXCEPT !.phase = AwaitingChainCreationSelection]
       ELSE IF result.kind = "DecideTieBreak"
       THEN [game EXCEPT !.phase = Phase("Merge", self.current_player_id,
                                         "AwaitingTiebreakSelection", result.tied_chains, <<>>)]
       ELSE IF result.kind = "Merge"
       THEN place_tile_merge(self, game, result.mergers, order)
       ELSE Panic(game)

\* the match on the answer of Grid::place; `placed` is the grid and the
\* PlaceTileResult, `taken` the game with the tile taken out of the hand
place_tile_result(self, taken, placed, player_id, order) ==
    LET game == [taken EXCEPT !.grid = placed.grid]
        result == placed.result
    IN IF result.kind = "Proceed"
       THEN IF existing_chains(game.grid) = <<>>
            THEN move_to_next_player_who_can_play_a_tile(
                    player_take_tile([game EXCEPT !.phase = AwaitingStockPurchase], player_id),
                    order)
            ELSE [game EXCEPT !.phase = AwaitingStockPurchase]
       ELSE IF result.kind = "SelectAvailableChain"
       THEN [game EXCEPT !.phase = AwaitingChainCreationSelection]
       ELSE IF result.kind = "DecideTieBreak"
       THEN [game EXCEPT !.phase = Phase("Merge", self.current_player_id,
                                         "AwaitingTiebreakSelection", result.tied_chains, <<>>)]
       ELSE IF result.kind = "Merge"
       THEN place_tile_merge(self, game, result.mergers, order)
       ELSE Panic(game)

\* PlaceTile that leaves the placed tile in the hand
apply_place_tile_keeping_hand(self, player_id, tile, order) ==
    IF tile \notin Range(self.players[player_id].tiles) THEN Panic(self)
    ELSE place_tile_result(self, self, place(self.grid, tile), player_id, order)

apply_place_tile(self, player_id, tile, order) ==
    LET hand == self.players[player_id].tiles
    IN IF tile \notin Range(hand) THEN Panic(self)
       ELSE place_tile_result(
                self,
                [self EXCEPT !.players[player_id].tiles = RemoveAt(@, Position(hand, tile))],
                place(self.grid, tile), player_id, order)

\* the creation of a chain without the free share
no_free_stock(game, player_id, chain) == game

\* the free share for creating a chain, while the bank holds one
free_stock(game, player_id, chain) ==
    IF withdraw_ok(game.stocks, chain, 1)
    THEN [game EXCEPT !.stocks = withdraw(@, chain, 1),
                      !.players[player_id].stocks = deposit(@, chain, 1)]
    ELSE game

apply_select_chain_to_create(self, player_id, chain, order) ==
    LET pt == self.grid.previously_placed_tile_pt
    IN IF pt = NoPoint THEN Panic(self)
       ELSE free_stock([self EXCEPT !.grid = fill_chain(self.grid, pt, chain, order),
                                    !.phase = AwaitingStockPurchase],
                       player_id, chain)

\* the for loop over the buys of PurchaseStock; prices are those of `self`
RECURSIVE apply_buys(_, _, _, _)
apply_buys(self, game, player_id, buys) ==
    IF buys = <<>> \/ game.panicked THEN game
    ELSE IF Head(buys) = None THEN apply_buys(self, game, player_id, Tail(buys))
    ELSE LET chain == Head(buys)
             cost == chain_value(chain, chain_size(self.grid, chain))
         IN IF ~withdraw_ok(game.stocks, chain, 1) \/ game.players[player_id].money < cost
            THEN Panic(game)
            ELSE apply_buys(self,
                            [game EXCEPT !.stocks = withdraw(@, chain, 1),
                                         !.players[player_id].stocks = deposit(@, chain, 1),
                                         !.players[player_id].money = @ - cost],
                            player_id, Tail(buys))

\* the end of the turn: the termination decision or the next player
end_turn(game, order) ==
    IF game.panicked THEN game
    ELSE IF may_terminate(game) THEN [game EXCEPT !.phase = AwaitingGameTerminationDecision]
    ELSE move_to_next_player_who_can_play_a_tile(game, order)

\* the tile drawn and the illegal tiles traded in after the purchase
refill_hand(bought, player_id, order) ==
    IF bought.panicked THEN bought
    ELSE end_turn(player_trade_in_illegal_tiles(player_take_tile(bought, player_id), player_id),
                  order)

apply_purchase_stock(self, player_id, buys, order) ==
    refill_hand(apply_buys(self, self, player_id, buys), player_id, order)

apply_select_chain_for_tiebreak(self, tiebreak_chain, order) ==
    LET defunct_chains == Filter(self.phase.tied_chains, LAMBDA c : c # tiebreak_chain)
        pushed == [i \in DOMAIN defunct_chains |->
                    MergingChains(tiebreak_chain, defunct_chains[i],
                                  num_players_with_stock_in_chain(self, defunct_chains[i]))]
        mergers_remaining == self.phase.mergers_remaining \o pushed
        game == [self EXCEPT !.phase.mergers_remaining = mergers_remaining,
                             !.phase.phase = "AwaitingMergeDecision",
                             !.phase.tied_chains = <<>>]
    IN IF self.phase.kind # "Merge" \/ self.phase.phase # "AwaitingTiebreakSelection"
       THEN Panic(self)
       ELSE IF mergers_remaining = <<>> THEN Panic(game)
       ELSE provide_bonuses(game, mergers_remaining[1].defunct_chain, order)

\* the trade that credits a share of the survivor for every share traded in
decide_merge_trade_one_for_one(game, merging_chains, sell, trade_in) ==
    LET merging_player_id == game.phase.merging_player_id
        defunct_chain_size == chain_size(game.grid, merging_chains.defunct_chain)
    IN [game EXCEPT
          !.players[merging_player_id].stocks =
              deposit(withdraw(@, merging_chains.defunct_chain, sell + trade_in),
                      merging_chains.merging_chain, trade_in),
          !.players[merging_player_id].money =
              @ + chain_value(merging_chains.defunct_chain, defunct_chain_size) * sell,
          !.stocks =
              deposit(withdraw(@, merging_chains.merging_chain, trade_in \div 2),
                      merging_chains.defunct_chain, sell + trade_in)]

\* the first step of DecideMerge: the stock and money movements
decide_merge_trade(game, merging_chains, sell, trade_in) ==
    LET merging_player_id == game.phase.merging_player_id
        defunct_chain_size == chain_size(game.grid, merging_chains.defunct_chain)
    IN [game EXCEPT
          !.players[merging_player_id].stocks =
              deposit(withdraw(@, merging_chains.defunct_chain, sell + trade_in),
                      merging_chains.merging_chain, trade_in \div 2),
          !.players[merging_player_id].money =
              @ + chain_value(merging_chains.defunct_chain, defunct_chain_size) * sell,
          !.stocks =
              deposit(withdraw(@, merging_chains.merging_chain, trade_in \div 2),
                      merging_chains.defunct_chain, sell + trade_in)]

\* the pairing at the head of the queue is struck off
finish_merger(self, game, mergers_remaining, pay_next_bonus, order) ==
    LET merger == mergers_remaining[1]
        rest == Tail(mergers_remaining)
        popped == [game EXCEPT !.phase.mergers_remaining = rest,
                               !.phase.merging_player_id = self.current_player_id]
    IN IF rest = <<>>
       THEN [popped EXCEPT
               !.phase = AwaitingStockPurchase,
               !.grid = fill_chain(game.grid, game.grid.previously_placed_tile_pt,
                                   merger.merging_chain, order)]
       ELSE IF pay_next_bonus THEN provide_bonuses(popped, rest[1].defunct_chain, order)
       ELSE popped

apply_decide_merge(self, action_merging_player_id, sell, trade_in, order) ==
    LET mergers_remaining == self.phase.mergers_remaining
        merging_chains == mergers_remaining[1]
        holder == self.players[self.phase.merging_player_id].stocks
        traded == decide_merge_trade(self, merging_chains, sell, trade_in)
        next_merging_player == next_merging_player_id(traded, merging_chains.defunct_chain)
        num_remaining_players_to_merge == merging_chains.num_remaining_players_to_merge - 1
        decremented == [traded EXCEPT
                          !.phase.merging_player_id = next_merging_player,
                          !.phase.mergers_remaining[1].num_remaining_players_to_merge =
                              num_remaining_players_to_merge]
    IN IF self.phase.kind # "Merge" THEN Panic(self)
       ELSE IF action_merging_player_id # self.phase.merging_player_id THEN Panic(self)
       ELSE IF mergers_remaining = <<>> THEN Panic(self)
       ELSE IF ~withdraw_ok(holder, merging_chains.defunct_chain, sell + trade_in) THEN Panic(self)
       ELSE IF ~withdraw_ok(self.stocks, merging_chains.merging_chain, trade_in \div 2)
       THEN Panic(self)
       ELSE IF next_merging_player # NoPlayer
       THEN IF num_remaining_players_to_merge < 0 THEN Panic(traded)
            ELSE IF num_remaining_players_to_merge = 0
            THEN finish_merger(self, decremented, decremented.phase.mergers_remaining, FALSE, order)
            ELSE decremented
       ELSE finish_merger(self, traded, mergers_remaining, TRUE, order)

apply_terminate(self, terminate, order) ==
    IF terminate THEN provide_final_bonuses([self EXCEPT !.terminated = TRUE], order)
    ELSE move_to_next_player_who_can_play_a_tile([self EXCEPT !.terminated = FALSE], order)

\* the step counter, left alone by a game that has ended
count_step(game) ==
    IF game.terminated \/ game.panicked THEN game ELSE [game EXCEPT !.step = @ + 1]

apply_action(self, action, order) ==
    count_step(
        CASE action.type = "PlaceTile" ->
                apply_place_tile(self, action.player, action.tile, order)
          [] action.type = "SelectChainToCreate" ->
                apply_select_chain_to_create(self, action.player, action.chain, order)
          [] action.type = "PurchaseStock" ->
                apply_purchase_stock(self, action.player, action.buys, order)
          [] action.type = "SelectChainForTiebreak" ->
                apply_select_chain_for_tiebreak(self, action.chain, order)
          [] action.type = "DecideMerge" ->
                apply_decide_merge(self, action.player, action.sell, action.trade_in, order)
          [] OTHER -> apply_terminate(self, action.terminate, order))

\* ------------------------------------------------------------------------
\* The state machine
\* ------------------------------------------------------------------------

\* The fields of Acquire, `panicked`, and what the caller holds: the options
\* the game was constructed with, the action applied last, the players whose
\* DecideMerge was applied for the pairing now at the head of the queue, the
\* number of scripted steps left, the number of iterations of the caller's
\* loop, and the actions the caller chooses from in this state
VARIABLES phase, players, tiles, stocks, grid, current_player_id, turn, step,
          terminated, panicked, options, last, decided, opening, iteration, offered

vars == <<phase, players, tiles, stocks, grid, current_player_id, turn, step,
          terminated, panicked, options, last, decided, opening, iteration, offered>>

\* the current game value
Game ==
    [phase |-> phase, players |-> players, tiles |-> tiles, stocks |-> stocks,
     grid |-> grid, current_player_id |-> current_player_id, turn |-> turn,
     step |-> step, terminated |-> terminated, panicked |-> panicked]

\* the state is the game value g
Is(g) ==
    /\ phase = g.phase
    /\ players = g.players
    /\ tiles = g.tiles
    /\ stocks = g.stocks
    /\ grid = g.grid
    /\ current_player_id = g.current_player_id
    /\ turn = g.turn
    /\ step = g.step
    /\ terminated = g.terminated
    /\ panicked = g.panicked

\* the state becomes the game value g
Becomes(g) ==
    /\ phase' = g.phase
    /\ players' = g.players
    /\ tiles' = g.tiles
    /\ stocks' = g.stocks
    /\ grid' = g.grid
    /\ current_player_id' = g.current_player_id
    /\ turn' = g.turn
    /\ step' = g.step
    /\ terminated' = g.terminated
    /\ panicked' = g.panicked

\* Options of the small game, which is explored from its construction on
num_players == 2
num_tiles == 3
grid_width == 3
grid_height == 3
num_stock == 2
starting_money == 500

SmallOptions ==
    [num_players |-> num_players, num_tiles |-> num_tiles, grid_width |-> grid_width,
     grid_height |-> grid_height, num_stock |-> num_stock, starting_money |-> starting_money]

\* tiles.shuffle(rng): the shuffles of the small game are bounded to
\* NumShuffles permutations, each a stride walk through the tile list
NumShuffles == 1

RECURSIVE GCD(_, _)
GCD(a, b) == IF b = 0 THEN a ELSE GCD(b, a % b)

Shuffle(all, seed) ==
    LET n == Len(all)
        strides == Filter([i \in 1..n |-> i], LAMBDA i : GCD(i, n) = 1)
        stride == strides[(seed % Len(strides)) + 1]
        offset == seed \div Len(strides) + seed
    IN [i \in 1..n |-> all[((i * stride + offset) % n) + 1]]

\* The caller founds one of the first ChainChoices available chains
ChainChoices == 2

\* A scenario: the options and the shuffle the game is constructed with, and
\* the number of leading steps in which the caller applies the first offered
\* action (the driver of the tests of lib.rs: game.actions().remove(0))
Scenario(opts, deck, opening_steps) ==
    [options |-> opts, deck |-> deck, opening |-> opening_steps]

\* the small game is also constructed with a bank that issues no stock
no_stock == 0

SmallScenarios ==
    {Scenario([SmallOptions EXCEPT !.num_stock = stock],
              Shuffle(AllTiles(grid_width, grid_height), seed), 0) :
        seed \in 0..(NumShuffles - 1), stock \in {no_stock, num_stock}}

\* Options::default
default_num_players == 4
default_num_tiles == 6
default_num_stock == 25
default_starting_money == 6000

\* The column games: two players on a board one slot wide, the other options
\* those of Options::default
ColumnPlayers == 2

ColumnOptions(height) ==
    [num_players |-> ColumnPlayers, num_tiles |-> default_num_tiles, grid_width |-> 1,
     grid_height |-> height, num_stock |-> default_num_stock,
     starting_money |-> default_starting_money]

Column(ys) == [i \in DOMAIN ys |-> <<0, ys[i]>>]

FromTo(a, b) == [i \in 1..(b - a + 1) |-> a + i - 1]

Reverse(s) == [i \in DOMAIN s |-> s[Len(s) + 1 - i]]

\* the hands Acquire::new deals so that, every player placing the tiles of
\* their hand in the order they received them, the tiles are placed in the
\* order of `placements`
RECURSIVE DealtHands(_, _, _)
DealtHands(opts, placements, player) ==
    IF player = opts.num_players THEN <<>>
    ELSE [k \in 1..opts.num_tiles |-> placements[(k - 1) * opts.num_players + player + 1]]
         \o DealtHands(opts, placements, player + 1)

\* the shuffle that makes `placements` the order of play: the hands, then the
\* tiles the script does not name, then the scripted draws, last drawn first
\* (player_take_tile draws from the back of the bag)
ScriptedDeck(opts, placements) ==
    LET dealt == opts.num_players * opts.num_tiles
        rest == Filter(AllTiles(opts.grid_width, opts.grid_height),
                       LAMBDA t : t \notin Range(placements))
    IN DealtHands(opts, placements, 0) \o rest
       \o Reverse(SubSeq(placements, dealt + 1, Len(placements)))

\* Two chains next to one slot.  Tower is built on rows 3..13 and Luxor on
\* rows 16..24, American on rows 0..1; the caller then chooses freely with
\* the tiles of rows 25, 15, 2 and 14 in the hands and the bag empty.
TwoChainsHeight == 26
TwoChainsOpening == 46

TwoChainsPlacements ==
    Column(FromTo(3, 13) \o FromTo(16, 24) \o <<0, 1, 25, 15, 2, 14>>)

TwoChainsScenario ==
    Scenario(ColumnOptions(TwoChainsHeight),
             ScriptedDeck(ColumnOptions(TwoChainsHeight), TwoChainsPlacements),
             TwoChainsOpening)

\* One chain grown row by row to the game-ending size
EndGameHeight == 43
EndGameOpening == 80

EndGamePlacements == Column(FromTo(0, EndGameHeight - 1))

EndGameScenario ==
    Scenario(ColumnOptions(EndGameHeight),
             ScriptedDeck(ColumnOptions(EndGameHeight), EndGamePlacements),
             EndGameOpening)

\* All seven chains founded next to tiles without a chain.  Tiles are placed
\* alone on rows 22 and 24, then the chains are founded two rows each on rows
\* 0..19; the caller applies the first offered action throughout.
SevenChainsHeight == 27
SevenChainsOpening == 200

SevenChainsPlacements ==
    Column(<<22, 24, 0, 1, 3, 4, 6, 7, 9, 10, 12, 13, 15, 16, 18, 19>>)

SevenChainsScenario ==
    Scenario(ColumnOptions(SevenChainsHeight),
             ScriptedDeck(ColumnOptions(SevenChainsHeight), SevenChainsPlacements),
             SevenChainsOpening)

\* The same game in which, once the seven chains are founded, Imperial grows
\* by row 20, next to the empty slot of row 21 that touches the tile placed
\* alone on row 22.
SevenChainsGrowthPlacements == SevenChainsPlacements \o Column(<<20>>)

SevenChainsGrowthScenario ==
    Scenario(ColumnOptions(SevenChainsHeight),
             ScriptedDeck(ColumnOptions(SevenChainsHeight), SevenChainsGrowthPlacements),
             SevenChainsOpening)

\* Three players with the Options::default on a board 1 wide.  Player 1
\* founds Tower on rows 0-1, player 2 grows it by row 2 and player 0 places
\* row 10 alone; each buys three shares of Tower, so that two players are
\* second to the founder with the same holding.  The caller applies the
\* first offered action throughout.
ThreePlayersHeight == 20
ThreePlayersOpening == 200

ThreePlayersPlacements == Column(<<0, 1, 2, 10>> \o FromTo(3, 9) \o FromTo(11, 19))

ThreePlayersScenario ==
    Scenario([ColumnOptions(ThreePlayersHeight) EXCEPT !.num_players = 3],
             ScriptedDeck([ColumnOptions(ThreePlayersHeight) EXCEPT !.num_players = 3],
                          ThreePlayersPlacements),
             ThreePlayersOpening)

\* The merger games: two players with the Options::default on a board on
\* which three chains meet in the slot (2,1): Tower above it, Luxor to its
\* right and American to its left. The caller applies the first offered
\* action throughout.
MergerWidth == 5
MergerHeight == 4
MergerOpening == 200

MergerOptions == [ColumnOptions(MergerHeight) EXCEPT !.grid_width = MergerWidth]

\* the three chains have two tiles each when (2,1) is placed
ThreeTiedPlacements ==
    << <<2, 3>>, <<2, 2>>, <<4, 1>>, <<3, 1>>, <<0, 1>>, <<1, 1>>, <<2, 1>>,
       <<0, 3>>, <<4, 3>>, <<0, 0>>, <<4, 0>>, <<2, 0>> >>

ThreeTiedScenario ==
    Scenario(MergerOptions, ScriptedDeck(MergerOptions, ThreeTiedPlacements), MergerOpening)

\* Luxor and American have three tiles each and Tower two when (2,1) is placed
TiedAndSmallerPlacements ==
    << <<2, 3>>, <<2, 2>>, <<4, 1>>, <<3, 1>>, <<0, 1>>, <<1, 1>>, <<4, 0>>, <<0, 0>>,
       <<2, 1>>, <<0, 3>>, <<4, 3>>, <<2, 0>> >>

TiedAndSmallerScenario ==
    Scenario(MergerOptions, ScriptedDeck(MergerOptions, TiedAndSmallerPlacements),
             MergerOpening)

\* A chain that has left the board when the game ends.  Tower is founded on
\* rows 0..2, Luxor on rows 45..46 and American on rows 4..5; row 3 merges
\* American into Tower, whose founder keeps the share, and Tower is grown row
\* by row to the game-ending size.  The caller applies the first offered
\* action throughout.
FinalPayoutHeight == 47
FinalPayoutOpening == 200

FinalPayoutPlacements == Column(<<0, 1, 2, 45, 46, 4, 5, 3>> \o FromTo(6, 40))

FinalPayoutScenario ==
    Scenario(ColumnOptions(FinalPayoutHeight),
             ScriptedDeck(ColumnOptions(FinalPayoutHeight), FinalPayoutPlacements),
             FinalPayoutOpening)

\* American has four tiles, Luxor three and Tower two when (2,1) is placed
ThreeSizesPlacements ==
    << <<2, 3>>, <<2, 2>>, <<4, 1>>, <<3, 1>>, <<0, 1>>, <<1, 1>>, <<4, 0>>, <<0, 0>>,
       <<0, 2>>, <<2, 1>>, <<0, 3>>, <<4, 3>>, <<2, 0>> >>

ThreeSizesScenario ==
    Scenario(MergerOptions, ScriptedDeck(MergerOptions, ThreeSizesPlacements), MergerOpening)

\* A round of players without a tile to place.  Two players with the
\* Options::default build Tower on row 0 and, on row 2, Luxor on columns 0..9
\* and American on columns 11..17, holding and drawing the tiles of row 1
\* meanwhile; (10,2) then merges American into Luxor, which makes Luxor safe
\* and the slots of row 1 PermanentIllegal.  The bag then yields the last
\* tiles of row 1 and after them tiles of row 3.  The caller applies the
\* first offered action throughout.
SecondRoundWidth == 18
SecondRoundHeight == 4
SecondRoundOpening == 200

SecondRoundPlacements ==
    [i \in 1..18 |-> <<i - 1, 0>>] \o [i \in 1..10 |-> <<i - 1, 2>>]
    \o [i \in 1..7 |-> <<i + 10, 2>>] \o << <<10, 2>> >>
    \o [i \in 1..18 |-> <<i - 1, 1>>] \o [i \in 1..6 |-> <<i - 1, 3>>]

SecondRoundScenario ==
    Scenario([ColumnOptions(SecondRoundHeight) EXCEPT !.grid_width = SecondRoundWidth],
             ScriptedDeck([ColumnOptions(SecondRoundHeight) EXCEPT !.grid_width = SecondRoundWidth],
                          SecondRoundPlacements),
             SecondRoundOpening)

Scenarios ==
    SmallScenarios \cup {TwoChainsScenario, EndGameScenario, SevenChainsScenario,
                         ThreeTiedScenario, TiedAndSmallerScenario, FinalPayoutScenario,
                         ThreeSizesScenario, SecondRoundScenario,
                         SevenChainsGrowthScenario, ThreePlayersScenario}

\* what the caller may choose among the offered actions
CallerMayChoose(game, a) ==
    a.type = "SelectChainToCreate" =>
        \E i \in 1..ChainChoices :
            i <= Len(available_chains(game.grid)) /\ a.chain = available_chains(game.grid)[i]

\* The caller's loop (test_random_games, run_game): while the game is not
\* terminated, take actions() and apply one of them.  Choices is what the
\* caller chooses from, of the list actions() returned.
Choices(game, listed, opening_steps) ==
    IF listed = <<>> THEN {}
    ELSE IF opening_steps > 0 THEN {listed[1]}
    ELSE {a \in Range(listed) : CallerMayChoose(game, a)}

Offered(game, opening_steps) ==
    IF game.terminated THEN {} ELSE Choices(game, actions(game), opening_steps)

Init ==
    \E sc \in Scenarios :
        /\ Is(AcquireNew(sc.deck, sc.options))
        /\ options = sc.options
        /\ last = NoAction
        /\ decided = <<>>
        /\ opening = sc.opening
        /\ iteration = 0
        /\ offered = Offered(AcquireNew(sc.deck, sc.options), sc.opening)

Chosen(type) == {a \in offered : a.type = type}

\* the step strikes the pairing at the head of the queue off
PairingRemoved ==
    /\ phase.kind = "Merge"
    /\ phase.phase = "AwaitingMergeDecision"
    /\ \/ phase'.kind # "Merge"
       \/ Len(phase'.mergers_remaining) < Len(phase.mergers_remaining)

Apply(a, order) ==
    /\ Bind(apply_action(Game, a, order),
            LAMBDA after : Becomes(after) /\ offered' = Offered(after, opening - 1))
    /\ options' = options
    /\ last' = a
    /\ decided' = IF a.type = "DecideMerge" /\ ~PairingRemoved
                  THEN Append(decided, a.player) ELSE <<>>
    /\ opening' = IF opening > 0 THEN opening - 1 ELSE 0
    /\ iteration' = iteration + 1

PlaceTile ==
    /\ phase.kind = "AwaitingTilePlacement"
    /\ \E a \in Chosen("PlaceTile"), order \in IterationOrders : Apply(a, order)

SelectChainToCreate ==
    /\ phase.kind = "AwaitingChainCreationSelection"
    /\ \E a \in Chosen("SelectChainToCreate"), order \in IterationOrders : Apply(a, order)

SelectChainForTiebreak ==
    /\ phase.kind = "Merge"
    /\ phase.phase = "AwaitingTiebreakSelection"
    /\ \E a \in Chosen("SelectChainForTiebreak"), order \in IterationOrders : Apply(a, order)

DecideMerge ==
    /\ phase.kind = "Merge"
    /\ phase.phase = "AwaitingMergeDecision"
    /\ \E a \in Chosen("DecideMerge"), order \in IterationOrders : Apply(a, order)

PurchaseStock ==
    /\ phase.kind = "AwaitingStockPurchase"
    /\ \E a \in Chosen("PurchaseStock"), order \in IterationOrders : Apply(a, order)

Terminate ==
    /\ phase.kind = "AwaitingGameTerminationDecision"
    /\ \E a \in Chosen("Terminate"), order \in IterationOrders : Apply(a, order)

Next ==
    \/ PlaceTile
    \/ SelectChainToCreate
    \/ SelectChainForTiebreak
    \/ DecideMerge
    \/ PurchaseStock
    \/ Terminate

Spec == Init /\ [][Next]_vars

\* ------------------------------------------------------------------------
\* Properties
\* ------------------------------------------------------------------------

Board == BoardPoints(options.grid_width, options.grid_height)

Seats == DOMAIN players

\* the shares of a chain held by the bank and by the players together
SharesHeld(chain) ==
    stocks[chain] + SeqSum([i \in 1..Cardinality(Seats) |-> players[i - 1].stocks[chain]])

\* C1: for every chain, the bank's holding plus the players' holdings is at
\* most the issued total, and no holding is negative
C1_StockConservation ==
    \A chain \in Chains :
        /\ stocks[chain] >= 0
        /\ \A id \in Seats : players[id].stocks[chain] >= 0
        /\ SharesHeld(chain) <= options.num_stock

\* a merge decision that trades shares in has been applied
C1_Witness == last.type = "DecideMerge" /\ last.trade_in > 0 /\ ~panicked

\* how many times a tile is held: in the bag, in the hands, on the board
Copies(pt) ==
    Cardinality({i \in DOMAIN tiles : tiles[i] = pt})
    + SeqSum([i \in 1..Cardinality(Seats) |->
                Cardinality({k \in DOMAIN players[i - 1].tiles : players[i - 1].tiles[k] = pt})])
    + (IF IsEmpty(grid.data[pt]) THEN 0 ELSE 1)

TilesInPlay ==
    Len(tiles)
    + SeqSum([i \in 1..Cardinality(Seats) |-> Len(players[i - 1].tiles)])
    + Cardinality({pt \in Board : ~IsEmpty(grid.data[pt])})

\* C2 as stated: the tiles in the bag, in the hands and on the board are
\* width x height in number
C2_TileConservation == TilesInPlay = options.grid_width * options.grid_height

\* C2 amended: every tile is held at most once, by the bag, a hand or the
\* board, and a tile held by none of them is one whose slot is
\* Empty(PermanentIllegal): it was discarded from a hand
C2_TilesAccounted ==
    \A pt \in Board :
        /\ Copies(pt) <= 1
        /\ Copies(pt) = 0 => grid.data[pt] = EmptyPermanentIllegal

\* a permanently illegal tile has been discarded from a hand
C2_Witness == \E pt \in Board : Copies(pt) = 0

\* C3: for every chain, the size in the chain-size table is the number of
\* slots holding Chain(chain)
C3_ChainSizeConsistency ==
    \A chain \in Chains :
        grid.chain_sizes[chain] = Cardinality({pt \in DOMAIN grid.data : grid.data[pt] = chain})

\* a merger has been completed: the survivor was filled over the defunct chain
C3_Witness ==
    /\ last.type = "DecideMerge"
    /\ phase.kind = "AwaitingStockPurchase"
    /\ \E chain \in Chains : grid.chain_sizes[chain] >= 5

\* C4: a slot that is Empty(PermanentIllegal) is Empty(PermanentIllegal) after
\* every step
C4_LegalityMonotone ==
    [][\A pt \in DOMAIN grid.data :
            grid.data[pt] = EmptyPermanentIllegal => grid'.data[pt] = EmptyPermanentIllegal]_vars

\* a merger has been filled next to a permanently illegal slot
C4_Witness ==
    /\ last.type = "DecideMerge"
    /\ phase.kind = "AwaitingStockPurchase"
    /\ \E pt \in Board :
        /\ grid.data[pt] = EmptyPermanentIllegal
        /\ grid.data[grid.previously_placed_tile_pt] \in Range(neighbours(grid, pt))

\* the safe chains next to a point
SafeChainsAt(pt) ==
    {chain \in Range(chains_in_slots(neighbours(grid, pt))) :
        chain_size(grid, chain) >= SAFE_CHAIN_SIZE}

\* C5: when a tile placement is awaited, every empty slot next to two or more
\* safe chains is Empty(PermanentIllegal), and no PlaceTile is offered for it
C5_SafeChainsNeverMerge ==
    (phase.kind = "AwaitingTilePlacement" /\ ~terminated /\ ~panicked) =>
        \A pt \in Board :
            (IsEmpty(grid.data[pt]) /\ Cardinality(SafeChainsAt(pt)) >= 2) =>
                /\ grid.data[pt] = EmptyPermanentIllegal
                /\ pt \notin {a.tile : a \in Range(actions(Game))}

\* the game value after the step
GameAfter ==
    [phase |-> phase', players |-> players', tiles |-> tiles', stocks |-> stocks',
     grid |-> grid', current_player_id |-> current_player_id', turn |-> turn',
     step |-> step', terminated |-> terminated', panicked |-> panicked']

\* the chains a tile at pt touches, and those of them of maximal size
Touched(pt) == Range(chains_in_slots(neighbours(grid, pt)))

Largest(pt) ==
    {chain \in Touched(pt) : \A other \in Touched(pt) :
        chain_size(grid, other) <= chain_size(grid, chain)}

\* C6: a placed tile that touches two or more chains, two of them of the
\* maximal size, is answered DecideTieBreak with exactly the touched chains of
\* maximal size; the grid changes in the placed slot alone, which becomes
\* Limbo and the last placed; and the actions are then one
\* SelectChainForTiebreak per tied chain for the tile placer
C6_TieBreak ==
    [][(last'.type = "PlaceTile" /\ Cardinality(Largest(last'.tile)) >= 2) =>
        /\ place(grid, last'.tile).result.kind = "DecideTieBreak"
        /\ Range(place(grid, last'.tile).result.tied_chains) = Largest(last'.tile)
        /\ phase'.kind = "Merge"
        /\ phase'.phase = "AwaitingTiebreakSelection"
        /\ Range(phase'.tied_chains) = Largest(last'.tile)
        /\ grid'.data = [grid.data EXCEPT ![last'.tile] = Limbo]
        /\ grid'.chain_sizes = grid.chain_sizes
        /\ grid'.previously_placed_tile_pt = last'.tile
        /\ Len(actions(GameAfter)) = Cardinality(Largest(last'.tile))
        /\ Range(actions(GameAfter)) =
            {SelectChainForTiebreakAction(current_player_id, chain) : chain \in Largest(last'.tile)}]_vars

\* a tie-break has been requested
C6_Witness ==
    /\ last.type = "PlaceTile"
    /\ phase.kind = "Merge"
    /\ phase.phase = "AwaitingTiebreakSelection"
    /\ Len(phase.tied_chains) >= 2

\* C7: a state that is not terminated offers at least one action
C7_NoStuckState == ~terminated => actions(Game) # <<>>

\* a player without a tile to place has been skipped, and the game goes on
C7_Witness ==
    /\ ~terminated
    /\ phase.kind = "AwaitingTilePlacement"
    /\ \E id \in Seats : ~player_has_any_valid_tiles(Game, id)

\* The caller's loop runs its next iteration while an action is offered: the
\* steps of Spec that change `iteration` are the steps of Next, and one is
\* possible exactly when an action is offered
Iterate == offered # {} /\ iteration' = iteration + 1

FairSpec == Spec /\ WF_iteration(Iterate)

\* C8: every game reaches a state with the terminated flag set
C8_EveryGameEnds == <>terminated

\* a game has ended on the answer Terminate(false), no player being able to
\* place a tile
C8_Witness == terminated /\ last.type = "Terminate" /\ ~last.terminate

\* C9: the successor of a state under an offered action does not depend on
\* the iteration order of the engine's hash maps
C9_Determinism ==
    ~terminated =>
        \A action \in Range(actions(Game)) :
            LET successor == apply_action(Game, action, CHOOSE o \in IterationOrders : TRUE)
            IN \A order \in IterationOrders : apply_action(Game, action, order) = successor

\* bonuses have been paid to two players out of the bonus map
C9_Witness ==
    /\ last.type = "PlaceTile"
    /\ phase.kind = "Merge"
    /\ phase.phase = "AwaitingMergeDecision"
    /\ Cardinality(DOMAIN chain_bonus(Game, phase.mergers_remaining[1].defunct_chain)) >= 2

\* the distance of a seat from the tile placer's, in seat order
SeatDistance(id) == (id - current_player_id + Cardinality(Seats)) % Cardinality(Seats)

\* C10: when a pairing is struck off the queue, every holder of its defunct
\* chain has been asked for one DecideMerge, the players asked were asked once
\* each and in seat order from the tile placer
C10_MergeSequencing ==
    [][PairingRemoved =>
        LET asked == Append(decided, phase.merging_player_id)
            defunct_chain == phase.mergers_remaining[1].defunct_chain
        IN /\ \A id \in Seats :
                has_any(players[id].stocks, defunct_chain) => id \in Range(asked)
           /\ \A i, j \in DOMAIN asked :
                i < j => SeatDistance(asked[i]) < SeatDistance(asked[j])]_vars

\* the step makes a pairing the head of the queue of a merger under decision
NewHead ==
    /\ phase'.kind = "Merge"
    /\ phase'.phase = "AwaitingMergeDecision"
    /\ phase'.mergers_remaining # <<>>
    /\ last'.type \in {"PlaceTile", "SelectChainForTiebreak"} \/ PairingRemoved

\* what a DecideMerge step pays the deciding player for the shares sold
Sale(id) ==
    IF last'.type = "DecideMerge" /\ id = last'.player
    THEN chain_value(phase.mergers_remaining[1].defunct_chain,
                     chain_size(grid, phase.mergers_remaining[1].defunct_chain)) * last'.sell
    ELSE 0

\* the majority/minority bonus of a chain for a player
BonusOf(chain, id) ==
    IF id \in DOMAIN chain_bonus(Game, chain) THEN chain_bonus(Game, chain)[id] ELSE 0

\* C11: the step that makes a pairing the head of the queue pays every player
\* the bonus of the pairing's defunct chain, and a DecideMerge step that
\* strikes no pairing off pays no bonus
C11_MergerBonus ==
    [][/\ NewHead =>
            \A id \in Seats :
                players'[id].money =
                    players[id].money + Sale(id)
                    + BonusOf(phase'.mergers_remaining[1].defunct_chain, id)
       /\ (last'.type = "DecideMerge" /\ ~PairingRemoved) =>
            \A id \in Seats : players'[id].money = players[id].money + Sale(id)]_vars

PairingsFor(survivor, chain) ==
    {i \in DOMAIN phase'.mergers_remaining :
        /\ phase'.mergers_remaining[i].defunct_chain = chain
        /\ phase'.mergers_remaining[i].merging_chain = survivor}

\* C13: after SelectChainForTiebreak chooses a chain, every other chain the
\* placed tile touches that has a shareholder is the defunct chain of exactly
\* one pairing of the queue, with the chosen chain for survivor, the tied
\* chains ahead of the smaller ones
C13_TiebreakCoversTouched ==
    [][(last'.type = "SelectChainForTiebreak" /\ ~panicked') =>
        LET pt == grid.previously_placed_tile_pt
            queue == phase'.mergers_remaining
        IN /\ \A chain \in Touched(pt) \ {last'.chain} :
                num_players_with_stock_in_chain(Game, chain) > 0 =>
                    Cardinality(PairingsFor(last'.chain, chain)) = 1
           /\ \A i, j \in DOMAIN queue :
                (/\ queue[i].defunct_chain \in Range(phase.tied_chains)
                 /\ queue[j].defunct_chain \notin Range(phase.tied_chains)) => i < j]_vars

\* the step ends the merger the tile at previously_placed_tile_pt started
EndsMerger ==
    /\ ~panicked'
    /\ phase'.kind = "AwaitingStockPurchase"
    /\ \/ phase.kind = "Merge"
       \/ last'.type = "PlaceTile" /\ Cardinality(Touched(last'.tile)) >= 2

\* the survivor of the merger that the step ends
Survivor ==
    IF phase.kind = "Merge" THEN phase.mergers_remaining[1].merging_chain
    ELSE CHOOSE chain \in Largest(last'.tile) : TRUE

\* C14: when the merger ends and the stock purchase is awaited, the placed
\* tile and every tile of the chains it touched hold the surviving chain, and
\* every other touched chain has size 0
C14_MergerFinalization ==
    [][EndsMerger =>
        LET pt == grid'.previously_placed_tile_pt
        IN /\ grid'.data[pt] = Survivor
           /\ \A q \in Board : grid.data[q] \in Touched(pt) => grid'.data[q] = Survivor
           /\ \A chain \in Touched(pt) \ {Survivor} : grid'.chain_sizes[chain] = 0]_vars

\* the chains on the board after the step
FoundedAfter == {chain \in Chains : grid'.chain_sizes[chain] > 0}

\* C15: after a PurchaseStock step the termination decision is awaited, with
\* Terminate(true) and Terminate(false) of the current player for the only
\* actions, exactly when a chain is on the board and every chain on the board
\* has at least 11 tiles, or some chain has at least 41 tiles; otherwise the
\* placement of a tile is awaited
C15_GameEndDecision ==
    [][(last'.type = "PurchaseStock" /\ ~panicked') =>
        IF \/ FoundedAfter # {} /\ \A chain \in FoundedAfter : grid'.chain_sizes[chain] >= 11
           \/ \E chain \in Chains : grid'.chain_sizes[chain] >= 41
        THEN /\ phase'.kind = "AwaitingGameTerminationDecision"
             /\ Range(actions(GameAfter)) = {TerminateAction(current_player_id', TRUE),
                                             TerminateAction(current_player_id', FALSE)}
        ELSE phase'.kind = "AwaitingTilePlacement"]_vars

\* the bonuses of the chains on the board for a player
FinalBonus(id) ==
    SeqSum([i \in DOMAIN CHAIN_ARRAY |->
                IF grid.chain_sizes[CHAIN_ARRAY[i]] > 0 THEN BonusOf(CHAIN_ARRAY[i], id) ELSE 0])

\* C16: a Terminate(true) step sets the terminated flag and adds to every
\* player's money the majority/minority bonuses of the chains on the board,
\* each once, and nothing for the shares of a chain that is not on the board
C16_FinalPayout ==
    [][(last'.type = "Terminate" /\ last'.terminate /\ ~panicked') =>
        /\ terminated'
        /\ \A id \in Seats : players'[id].money = players[id].money + FinalBonus(id)]_vars

\* the entries a purchase is made of: the chains on the board and None
BuyOptions == {chain \in Chains : grid.chain_sizes[chain] > 0} \cup {None}

\* how often a triple of entries names x
Named(buys, x) == Cardinality({i \in DOMAIN buys : buys[i] = x})

\* the price of a share of a chain at its present size
Price(chain) == chain_value(chain, chain_size(grid, chain))

\* the bank has a share for every entry of the triple and the current player
\* can pay for all of them
Purchasable(buys) ==
    /\ \A chain \in Chains : Named(buys, chain) <= stocks[chain]
    /\ SeqSum([i \in DOMAIN buys |-> IF buys[i] = None THEN 0 ELSE Price(buys[i])])
         <= players[current_player_id].money

\* two triples with the same entries
SameEntries(b1, b2) == \A x \in BuyOptions : Named(b1, x) = Named(b2, x)

\* C17: when the stock purchase is awaited, every offered action is a
\* PurchaseStock of the current player for a purchasable triple of chains on
\* the board and None, every purchasable triple is offered in exactly one
\* order, the triple of None is offered, and when the bank has three shares of
\* every chain on the board and the player can pay three shares of the dearest
\* one, the number of actions is (k+3)(k+2)(k+1)/6 for k chains on the board
C17_PurchaseEnumeration ==
    (phase.kind = "AwaitingStockPurchase" /\ ~panicked /\ ~terminated) =>
        LET listed == actions(Game)
            k == Cardinality(BuyOptions) - 1
        IN /\ \A i \in DOMAIN listed :
                /\ listed[i].type = "PurchaseStock"
                /\ listed[i].player = current_player_id
                /\ listed[i].buys \in [1..3 -> BuyOptions]
                /\ Purchasable(listed[i].buys)
           /\ \A buys \in [1..3 -> BuyOptions] :
                Purchasable(buys) =>
                    Cardinality({i \in DOMAIN listed : SameEntries(listed[i].buys, buys)}) = 1
           /\ \E i \in DOMAIN listed : listed[i].buys = <<None, None, None>>
           /\ (\A chain \in BuyOptions \ {None} :
                    /\ stocks[chain] >= 3
                    /\ players[current_player_id].money >= 3 * Price(chain)) =>
                Len(listed) = ((k + 3) * (k + 2) * (k + 1)) \div 6

\* a purchase is awaited of a player who cannot pay three shares of a chain
\* of which the bank has fewer than three
C17_Witness ==
    /\ phase.kind = "AwaitingStockPurchase" /\ ~panicked /\ ~terminated
    /\ Len(actions(Game)) > 1
    /\ \E chain \in BuyOptions \ {None} :
        /\ stocks[chain] \in 1..2
        /\ players[current_player_id].money < 3 * Price(chain)

\* what the triple bought in the step costs at the prices before the step
Cost == SeqSum([i \in DOMAIN last'.buys |->
                    IF last'.buys[i] = None THEN 0 ELSE Price(last'.buys[i])])

\* the shares of the triple bought in the step have gone from the bank to
\* the buyer, one for one, and neither the bank nor the buyer is overdrawn
SharesBought ==
    /\ ~panicked'
    /\ \A chain \in Chains :
        /\ stocks'[chain] = stocks[chain] - Named(last'.buys, chain)
        /\ stocks'[chain] >= 0
        /\ players'[last'.player].stocks[chain] =
             players[last'.player].stocks[chain] + Named(last'.buys, chain)
    /\ players[last'.player].money >= Cost

\* C18 as stated: a PurchaseStock step overdraws neither the bank nor the
\* buyer, moves the bought shares from the bank to the buyer and leaves the
\* buyer the money held before less the prices of the shares bought
C18_PurchaseLeavesMoneyLessCost ==
    [][last'.type = "PurchaseStock" =>
        /\ SharesBought
        /\ players'[last'.player].money = players[last'.player].money - Cost]_vars

\* the bonuses provide_final_bonuses pays a player in the state after the step
FinalBonusesAfter(id) ==
    SeqSum([i \in DOMAIN CHAIN_ARRAY |->
                IF id \in DOMAIN chain_bonus(GameAfter, CHAIN_ARRAY[i])
                THEN chain_bonus(GameAfter, CHAIN_ARRAY[i])[id] ELSE 0])

\* C18: a PurchaseStock step overdraws neither the bank nor the buyer and
\* moves the bought shares from the bank to the buyer; it leaves the buyer the
\* money held before less the prices of the shares bought, to which the final
\* bonuses are added when the step ends the game
C18_PurchaseAffordable ==
    [][last'.type = "PurchaseStock" =>
        /\ SharesBought
        /\ players'[last'.player].money =
             players[last'.player].money - Cost
             + (IF terminated' THEN FinalBonusesAfter(last'.player) ELSE 0)]_vars

\* shares have been bought and the turn has gone on
C18_Witness ==
    /\ last.type = "PurchaseStock" /\ \E i \in DOMAIN last.buys : last.buys[i] # None
    /\ ~panicked /\ ~terminated

\* a merge decision is awaited on the head pairing of the queue
DecisionAwaited ==
    /\ phase.kind = "Merge" /\ phase.phase = "AwaitingMergeDecision"
    /\ phase.mergers_remaining # <<>>
    /\ ~panicked /\ ~terminated

\* the deciding player's shares of the defunct chain of the head pairing
\* and the bank's shares of its survivor
DefunctHeld == players[phase.merging_player_id].stocks[phase.mergers_remaining[1].defunct_chain]
SurvivorInBank == stocks[phase.mergers_remaining[1].merging_chain]

\* C19: when a merge decision is awaited, the offered actions are the
\* DecideMerge(sell, trade_in) of the deciding player, one for each pair with
\* trade_in even, sell + trade_in at most the player's shares of the defunct
\* chain and trade_in / 2 at most the bank's shares of the survivor; (0, 0)
\* is among them, and no trade-in is when the bank has no share of the survivor
C19_MergeEnumeration ==
    DecisionAwaited =>
        LET listed == actions(Game)
        IN /\ \A i \in DOMAIN listed :
                /\ listed[i].type = "DecideMerge"
                /\ listed[i].player = phase.merging_player_id
           /\ \A i, j \in DOMAIN listed :
                (listed[i].sell = listed[j].sell /\ listed[i].trade_in = listed[j].trade_in)
                    => i = j
           /\ {<<listed[i].sell, listed[i].trade_in>> : i \in DOMAIN listed} =
                {d \in (0..DefunctHeld) \X (0..DefunctHeld) :
                    /\ d[2] % 2 = 0
                    /\ d[1] + d[2] <= DefunctHeld
                    /\ d[2] \div 2 <= SurvivorInBank}
           /\ \E i \in DOMAIN listed : listed[i].sell = 0 /\ listed[i].trade_in = 0
           /\ SurvivorInBank = 0 => \A i \in DOMAIN listed : listed[i].trade_in = 0

\* the deciding player holds more pairs of shares of the defunct chain than
\* the bank has shares of the survivor
C19_Witness == DecisionAwaited /\ SurvivorInBank < DefunctHeld \div 2

\* the placement of a tile is awaited
PlacementAwaited == phase.kind = "AwaitingTilePlacement" /\ ~panicked /\ ~terminated

\* the hand of the current player
Hand == players[current_player_id].tiles

\* C20: when the placement of a tile is awaited, the offered actions are the
\* PlaceTile of the current player, one for each tile of the hand whose slot
\* is Empty(Legal) and none for a tile whose slot is TemporarilyIllegal or
\* PermanentIllegal, and Grid::place answers no PlaceTile step with Illegal
C20_PlacementEnumeration ==
    /\ [](PlacementAwaited =>
            LET listed == actions(Game)
            IN /\ \A i \in DOMAIN listed :
                    /\ listed[i].type = "PlaceTile"
                    /\ listed[i].player = current_player_id
                    /\ Get(grid, listed[i].tile) = EmptyLegal
               /\ \A i, j \in DOMAIN listed : listed[i].tile = listed[j].tile => i = j
               /\ {listed[i].tile : i \in DOMAIN listed} =
                    {t \in Range(Hand) : Get(grid, t) = EmptyLegal})
    /\ [][last'.type = "PlaceTile" =>
            /\ place(grid, last'.tile).result.kind \notin {"Illegal", "Panic"}
            /\ ~panicked']_vars

\* the current player holds a tile that may be placed and one that may not
C20_Witness ==
    /\ PlacementAwaited
    /\ \E t \in Range(Hand) : Get(grid, t) = EmptyLegal
    /\ \E t \in Range(Hand) : Get(grid, t) \in {EmptyTemporarilyIllegal, EmptyPermanentIllegal}

\* the step places a tile that touches two or more chains, one of them
\* larger than every other
PlacesOnLargest ==
    /\ last'.type = "PlaceTile"
    /\ Cardinality(Touched(last'.tile)) >= 2
    /\ Cardinality(Largest(last'.tile)) = 1

\* the pairings Grid::place answers the step with
Mergers == place(grid, last'.tile).result.mergers

\* C21: a placed tile that touches two or more chains, one of them larger
\* than every other, is answered Merge; the largest chain is the survivor of
\* every pairing and every other touched chain is the defunct chain of
\* exactly one pairing
C21_MergerWithoutTie ==
    [][PlacesOnLargest =>
        /\ place(grid, last'.tile).result.kind = "Merge"
        /\ \A i \in DOMAIN Mergers : Mergers[i].merging_chain \in Largest(last'.tile)
        /\ \A i \in DOMAIN Mergers :
                Mergers[i].defunct_chain \in Touched(last'.tile) \ Largest(last'.tile)
        /\ \A chain \in Touched(last'.tile) \ Largest(last'.tile) :
                Cardinality({i \in DOMAIN Mergers : Mergers[i].defunct_chain = chain}) = 1]_vars

\* a tile has been placed on three chains of three sizes and the decisions
\* on two pairings are awaited
C21_Witness ==
    /\ last.type = "PlaceTile"
    /\ phase.kind = "Merge" /\ phase.phase = "AwaitingMergeDecision"
    /\ Len(phase.mergers_remaining) >= 2

\* C22: the pairings Grid::place answers with, and the pairings of the queue
\* the step leaves, are in the order of the sizes of their defunct chains,
\* the largest defunct chain first
C22_DefunctOrdering ==
    [][PlacesOnLargest =>
        /\ \A i, j \in DOMAIN Mergers :
                i < j => chain_size(grid, Mergers[i].defunct_chain)
                            >= chain_size(grid, Mergers[j].defunct_chain)
        /\ phase'.kind = "Merge" =>
                \A i, j \in DOMAIN phase'.mergers_remaining :
                    i < j => chain_size(grid, phase'.mergers_remaining[i].defunct_chain)
                                >= chain_size(grid, phase'.mergers_remaining[j].defunct_chain)]_vars

\* the slots of the board that hold a tile and are joined to a slot of S by
\* a path of slots that hold a tile
RECURSIVE Connected(_)
Connected(S) ==
    LET joined == S \cup {q \in Board : /\ ~IsEmpty(grid.data[q])
                                        /\ \E r \in S : \/ q[1] = r[1] /\ q[2] - r[2] \in {1, 0 - 1}
                                                        \/ q[2] = r[2] /\ q[1] - r[1] \in {1, 0 - 1}}
    IN IF joined = S THEN S ELSE Connected(joined)

\* C23: a SelectChainToCreate(p, c) step is taken for a chain c of size 0;
\* it makes the last placed tile and the tiles joined to it the tiles of c,
\* two or more, awaits the stock purchase, and moves one share of c from the
\* bank to p when the bank has one, and none otherwise
C23_ChainFounding ==
    [][last'.type = "SelectChainToCreate" =>
        LET c == last'.chain
            p == last'.player
            tiles_of_c == Connected({grid.previously_placed_tile_pt})
            free == IF stocks[c] >= 1 THEN 1 ELSE 0
        IN /\ ~panicked'
           /\ grid.chain_sizes[c] = 0
           /\ {q \in Board : grid'.data[q] = c} = tiles_of_c
           /\ grid'.chain_sizes[c] = Cardinality(tiles_of_c)
           /\ grid'.chain_sizes[c] >= 2
           /\ phase'.kind = "AwaitingStockPurchase"
           /\ stocks'[c] = stocks[c] - free
           /\ players'[p].stocks[c] = players[p].stocks[c] + free
           /\ \A chain \in Chains \ {c} :
                /\ stocks'[chain] = stocks[chain]
                /\ players'[p].stocks[chain] = players[p].stocks[chain]]_vars

\* a chain has been founded of which the bank had no share to give
C23_Witness ==
    /\ last.type = "SelectChainToCreate" /\ ~panicked
    /\ players[last.player].stocks[last.chain] = 0

\* the slot touches a tile without a chain and no chain, in the grid g
TouchesOwnerlessOnly(g, q) ==
    /\ chains_in_slots(neighbours(g, q)) = <<>>
    /\ num_nochains_chains_in_slots(neighbours(g, q)) > 0

\* C24: when a step ends a merger that leaves a chain to found, where there
\* was none, the slots that were TemporarilyIllegal and touch tiles without a
\* chain only are Empty(Legal) after it; and whenever a chain is left to
\* found, the tiles of the hand for empty slots that touch tiles without a
\* chain only are offered for placement
C24_TemporaryIllegalityReverts ==
    /\ [][(num_available_chains(grid) = 0 /\ num_available_chains(grid') > 0) =>
            \A q \in Board :
                (grid.data[q] = EmptyTemporarilyIllegal /\ TouchesOwnerlessOnly(grid', q))
                    => grid'.data[q] = EmptyLegal]_vars
    /\ [](PlacementAwaited /\ num_available_chains(grid) > 0 =>
            \A t \in Range(Hand) :
                (IsEmpty(Get(grid, t)) /\ TouchesOwnerlessOnly(grid, t))
                    => PlaceTileAction(current_player_id, t) \in Range(actions(Game)))

\* C25: Grid::place on a slot that is Empty(TemporarilyIllegal) answers
\* Illegal with allow_trade_in false, on a slot that is
\* Empty(PermanentIllegal) Illegal with allow_trade_in true, and leaves the
\* slots, the chain sizes and the last placed point as they are
C25_IllegalPlacementRejected ==
    \A q \in Board :
        /\ grid.data[q] = EmptyTemporarilyIllegal =>
            /\ place(grid, q).result.kind = "Illegal"
            /\ ~place(grid, q).result.allow_trade_in
            /\ place(grid, q).grid = grid
        /\ grid.data[q] = EmptyPermanentIllegal =>
            /\ place(grid, q).result.kind = "Illegal"
            /\ place(grid, q).result.allow_trade_in
            /\ place(grid, q).grid = grid

\* the board has a slot that is TemporarilyIllegal next to a tile
C25_Witness ==
    \E q \in Board : grid.data[q] = EmptyTemporarilyIllegal /\ TouchesOwnerlessOnly(grid, q)

\* the points next to the board, outside it
AroundBoard == DOMAIN grid.data \ Board

\* C26: Grid::place on a point outside the board, the points with x = width
\* or y = height among them, panics and writes no slot
C26_OutOfBoundsFatal ==
    \A pt \in AroundBoard :
        /\ place(grid, pt).result.kind = "Panic"
        /\ place(grid, pt).grid = grid

\* the players no player has more money than
Richest == {id \in Seats : \A other \in Seats : players[other].money <= players[id].money}

\* C27: winners() names the players whose money is the most any player
\* has, each once and at least one; the outcome of a terminated game is a
\* Winner when one player has the most money and a Draw of all the richest
\* players when several have
C27_WinnerDetermination ==
    /\ Range(winners(Game)) = Richest
    /\ Len(winners(Game)) = Cardinality(Richest)
    /\ winners(Game) # <<>>
    /\ terminated =>
        /\ outcome(Game).kind = (IF Cardinality(Richest) = 1 THEN "Winner" ELSE "Draw")
        /\ Range(outcome(Game).players) = Richest

\* a game has ended in a draw
C27_Witness == terminated /\ ~panicked /\ Cardinality(Richest) > 1 /\ last.type # "None"

\* the game as the turn begins to advance: the player who moved has placed
\* the tile and drawn, and after a purchase has traded in the illegal tiles
TurnEnding ==
    IF last'.type = "PurchaseStock"
    THEN player_trade_in_illegal_tiles(player_take_tile(Game, last'.player), last'.player)
    ELSE IF last'.type = "PlaceTile"
    THEN player_take_tile(
            [Game EXCEPT !.grid = grid',
                         !.players[last'.player].tiles =
                             Filter(@, LAMBDA tile : tile # last'.tile)],
            last'.player)
    ELSE Game

\* the player holds a tile whose slot is Empty(Legal)
HoldsPlaceable(game, id) ==
    \E i \in DOMAIN game.players[id].tiles :
        game.grid.data[game.players[id].tiles[i]] = EmptyLegal

\* how far after the previous player the players sit who hold such a tile
SeatsAhead(game) ==
    {k \in 1..NumPlayers(game) :
        HoldsPlaceable(game, (current_player_id + k) % NumPlayers(game))}

\* C28: when the turn advances, the current player becomes the first
\* player after the previous one in seat order who holds a tile on an
\* Empty(Legal) slot, and the phase is AwaitingTilePlacement; when none of
\* the n players holds one, the game is terminated
C28_TurnAdvancement ==
    [][(turn' # turn /\ ~panicked')
        => IF SeatsAhead(TurnEnding) = {}
           THEN terminated'
           ELSE /\ current_player_id' =
                      (current_player_id
                       + (CHOOSE k \in SeatsAhead(TurnEnding) :
                             \A j \in SeatsAhead(TurnEnding) : k <= j))
                      % NumPlayers(Game)
                /\ phase' = AwaitingTilePlacement
                /\ ~terminated']_vars

\* the buyer's hand with the tile drawn from the bag, if one is left
HandWithDraw == IF tiles = <<>> THEN Hand ELSE Append(Hand, tiles[Len(tiles)])

\* what is left of the bag after that draw
BagAfterDraw == IF tiles = <<>> THEN tiles ELSE SubSeq(tiles, 1, Len(tiles) - 1)

\* the tiles of that hand whose slot is not Empty(PermanentIllegal)
HandKept == Filter(HandWithDraw, LAMBDA tile : grid.data[tile] # EmptyPermanentIllegal)

\* one replacement for each tile removed, while the bag lasts
Replacements ==
    [i \in 1..(IF Len(HandWithDraw) - Len(HandKept) < Len(BagAfterDraw)
               THEN Len(HandWithDraw) - Len(HandKept) ELSE Len(BagAfterDraw)) |->
        BagAfterDraw[Len(BagAfterDraw) + 1 - i]]

\* C29: a PurchaseStock step leaves the buyer the hand held before with one
\* tile drawn from the bag, without the tiles on Empty(PermanentIllegal)
\* slots and with one replacement drawn for each of them while the bag
\* lasts; the tiles on Legal and TemporarilyIllegal slots stay, and the
\* hands of the other players are those held before
C29_HandRefresh ==
    [][(last'.type = "PurchaseStock" /\ ~panicked')
        => /\ players'[last'.player].tiles = HandKept \o Replacements
           /\ \A other \in Seats \ {last'.player} :
                 players'[other].tiles = players[other].tiles]_vars

\* no slot of the board holds a chain
NoChainOnBoard == \A pt \in Board : ~IsChain(grid.data[pt])

\* the hand without the tile placed
HandAfterPlacing == Filter(Hand, LAMBDA tile : tile # last'.tile)

\* C30: a PlaceTile step whose grid result is Proceed, while no chain is on
\* the board, skips the purchase: the placer holds the hand without the tile
\* placed and with one tile drawn from the bag when one is left, the next
\* player in seat order is the current player and the phase is
\* AwaitingTilePlacement; while a chain is on the board the step leaves the
\* placer the current player in AwaitingStockPurchase, with nothing drawn
C30_NoChainFastPath ==
    [][(last'.type = "PlaceTile" /\ ~panicked'
        /\ place(grid, last'.tile).result.kind = "Proceed")
        => IF NoChainOnBoard
           THEN /\ players'[last'.player].tiles =
                      HandAfterPlacing
                      \o (IF tiles = <<>> THEN <<>> ELSE <<tiles[Len(tiles)]>>)
                /\ tiles' = BagAfterDraw
                /\ current_player_id' = (last'.player + 1) % NumPlayers(Game)
                /\ phase' = AwaitingTilePlacement
                /\ ~terminated'
                /\ stocks' = stocks
                /\ \A id \in Seats : /\ players'[id].money = players[id].money
                                     /\ players'[id].stocks = players[id].stocks
           ELSE /\ phase' = AwaitingStockPurchase
                /\ current_player_id' = last'.player
                /\ players'[last'.player].tiles = HandAfterPlacing
                /\ tiles' = tiles]_vars

\* a tile has been placed away from every other before any chain was
\* founded, and the next player is to place
C30_Witness ==
    /\ last.type = "PlaceTile" /\ ~panicked /\ ~terminated
    /\ NoChainOnBoard
    /\ phase = AwaitingTilePlacement
    /\ current_player_id = (last.player + 1) % NumPlayers(Game)
    /\ \E pt \in Board : grid.data[pt] # EmptyLegal /\ pt # last.tile

\* no chain is left to found
AllChainsFounded == \A c \in Chains : grid.chain_sizes[c] > 0

\* C31: while the seven chains are founded, an empty slot is
\* Empty(TemporarilyIllegal) exactly when it touches no tile of a chain and at
\* least one tile without a chain, whenever that tile was placed
C31_TemporaryIllegalityMarking ==
    AllChainsFounded =>
        \A pt \in Board :
            IsEmpty(grid.data[pt]) =>
                (grid.data[pt] = EmptyTemporarilyIllegal <=> TouchesOwnerlessOnly(grid, pt))

\* the tiles fill_chain is to reach from pt: those joined to it when it holds
\* a tile, none when it is empty
Reached(pt) == IF IsEmpty(grid.data[pt]) THEN {} ELSE Connected({pt})

\* `filled` is the grid in which exactly the tiles reached from pt are tiles
\* of c, the other tiles are as they were and the empty slots are empty
FilledAsSaid(filled, pt, c) ==
    \A q \in Board :
        IF q \in Reached(pt) THEN filled.data[q] = c
        ELSE IF IsEmpty(grid.data[q]) THEN IsEmpty(filled.data[q])
        ELSE filled.data[q] = grid.data[q]

\* a chain is about to be filled from the tile last placed: a chain is being
\* founded or a merger is under way
FillAwaited ==
    /\ phase.kind \in {"AwaitingChainCreationSelection", "Merge"}
    /\ grid.previously_placed_tile_pt \in Board
    /\ ~panicked

\* the chains the engine may fill from that tile: one that is left to found,
\* or one of the chains that touch the tile
FillChains ==
    IF phase.kind = "AwaitingChainCreationSelection"
    THEN Range(available_chains(grid))
    ELSE Range(chains_in_slots(neighbours(grid, grid.previously_placed_tile_pt)))

\* C32: fill_chain(origin, c) makes tiles of c exactly of the tiles joined to
\* origin through tiles next to one another; the other tiles keep their
\* slot, empty slots stay empty, and the same fill_chain applied again changes
\* nothing
C32_FloodFill ==
    FillAwaited =>
        \A c \in FillChains : \A order \in IterationOrders :
            /\ FilledAsSaid(fill_chain(grid, grid.previously_placed_tile_pt, c, order),
                            grid.previously_placed_tile_pt, c)
            /\ fill_chain(fill_chain(grid, grid.previously_placed_tile_pt, c, order),
                          grid.previously_placed_tile_pt, c, order)
                 = fill_chain(grid, grid.previously_placed_tile_pt, c, order)

\* a chain is to be filled from a tile that is joined to other tiles, on a
\* board with tiles that are not joined to it
C32_Witness ==
    /\ FillAwaited
    /\ Cardinality(Reached(grid.previously_placed_tile_pt)) >= 3
    /\ \E q \in Board : ~IsEmpty(grid.data[q]) /\ q \notin Reached(grid.previously_placed_tile_pt)

\* the slots of the board next to q
NextTo(q) == Range(neighbouring_points(q)) \cap Board

\* the ownerless tiles next to q
OwnerlessNextTo(q) == {n \in NextTo(q) : grid.data[n] = NoChain}

\* the tiles next to q that belong to no chain: ownerless or Limbo
ChainlessNextTo(q) == {n \in NextTo(q) : grid.data[n] \in {NoChain, Limbo}}

\* `placed` is the answer Proceed with a grid in which q and the tiles of
\* `absorbed` are tiles of c, the tiles further away are as they were and c
\* has grown by one and by the tiles of `absorbed`
GrownAsSaid(placed, q, c, absorbed) ==
    /\ placed.result.kind = "Proceed"
    /\ placed.grid.data[q] = c
    /\ \A n \in absorbed : placed.grid.data[n] = c
    /\ \A r \in Board \ (NextTo(q) \cup {q}) :
          ~IsEmpty(grid.data[r]) => placed.grid.data[r] = grid.data[r]
    /\ placed.grid.chain_sizes[c] = grid.chain_sizes[c] + 1 + Cardinality(absorbed)

\* the slot is Empty(Legal) and touches tiles of one chain only
GrowthSlot(q) ==
    grid.data[q] = EmptyLegal /\ Len(chains_in_slots(neighbours(grid, q))) = 1

RoundedShare(total, n) == 100 * ((total + 100 * n - 1) \div (100 * n))

\* the players with shares of the chain
Holders(c) == {id \in Seats : players[id].stocks[c] > 0}

\* those of them with the largest holding
Leaders(c) ==
    {id \in Holders(c) : \A other \in Holders(c) :
        players[other].stocks[c] <= players[id].stocks[c]}

\* those with the largest holding among the rest
Seconds(c) ==
    {id \in Holders(c) \ Leaders(c) : \A other \in Holders(c) \ Leaders(c) :
        players[other].stocks[c] <= players[id].stocks[c]}

\* the bonus map is the one C34 says for a chain of share price V
BonusAsSaid(bonus, c, V) ==
    /\ DOMAIN bonus \subseteq Holders(c)
    /\ Cardinality(Leaders(c)) >= 2 =>
          /\ DOMAIN bonus = Leaders(c)
          /\ \A id \in Leaders(c) : bonus[id] = RoundedShare(10 * V, Cardinality(Leaders(c)))
    /\ (Cardinality(Leaders(c)) = 1 /\ Seconds(c) # {}) =>
          /\ DOMAIN bonus = Leaders(c) \cup Seconds(c)
          /\ \A id \in Leaders(c) : bonus[id] = 10 * V
          /\ \A id \in Seconds(c) : bonus[id] = RoundedShare(5 * V, Cardinality(Seconds(c)))

\* C34: for a chain of share price V, the players tied for the largest
\* holding, two or more, get 10 V divided by their number and rounded up to a
\* multiple of 100 and nobody else gets a bonus; a player alone with the
\* largest holding gets 10 V and the players tied for the second largest get
\* 5 V divided by their number and rounded up to a multiple of 100; a player
\* without a share gets nothing
C34_BonusComputation ==
    \A c \in Chains :
        BonusAsSaid(chain_bonus(Game, c), c, chain_value(c, chain_size(grid, c)))

\* two players are second to the leader with the same holding, and their
\* half of 5 V is no multiple of 100
C34_Witness ==
    \E c \in Chains :
        /\ Cardinality(Leaders(c)) = 1 /\ Cardinality(Seconds(c)) = 2
        /\ (5 * chain_value(c, chain_size(grid, c))) % 200 # 0

\* C35: a slot is Limbo only while the phase is Merge: in
\* AwaitingTilePlacement, AwaitingChainCreationSelection,
\* AwaitingStockPurchase and AwaitingGameTerminationDecision no slot of the
\* board is Limbo
C35_LimboIsTransient ==
    phase.kind # "Merge" => \A pt \in Board : grid.data[pt] # Limbo

\* the tiles of the chain c on the board
TilesOf(c) == {pt \in Board : grid.data[pt] = c}

\* the two slots are next to one another
Adjacent(q, r) ==
    \/ q[1] = r[1] /\ q[2] - r[2] \in {1, 0 - 1}
    \/ q[2] = r[2] /\ q[1] - r[1] \in {1, 0 - 1}

\* the tiles of c joined to a tile of S by a path of tiles of c
RECURSIVE ConnectedIn(_, _)
ConnectedIn(S, c) ==
    LET joined == S \cup {q \in TilesOf(c) : \E r \in S : Adjacent(q, r)}
    IN IF joined = S THEN S ELSE ConnectedIn(joined, c)

\* C36: while a tile placement is awaited, every founded chain has size two
\* or more and its tiles are all joined to one another;
\* no two tiles next to one another are of different chains, and no ownerless
\* tile is next to a tile of a chain
C36_ChainsContiguous ==
    PlacementAwaited =>
        /\ \A c \in Chains :
              /\ grid.chain_sizes[c] > 0 => grid.chain_sizes[c] >= 2
              /\ TilesOf(c) # {} =>
                    ConnectedIn({CHOOSE pt \in TilesOf(c) : TRUE}, c) = TilesOf(c)
        /\ \A q, r \in Board :
              Adjacent(q, r) =>
                  /\ ~(IsChain(grid.data[q]) /\ IsChain(grid.data[r])
                       /\ grid.data[q] # grid.data[r])
                  /\ ~(grid.data[q] = NoChain /\ IsChain(grid.data[r]))

\* C37: in a state whose terminated flag is set actions() offers no action
C37_TerminatedIsFinal == (terminated /\ ~panicked) => actions(Game) = <<>>

\* C38: in the merge-decision sub-phase the player the DecideMerge actions
\* are addressed to holds a share of the defunct chain of the head pairing
C38_DeciderHasStake ==
    (phase.kind = "Merge" /\ phase.phase = "AwaitingMergeDecision" /\ ~panicked /\ ~terminated)
        => /\ phase.mergers_remaining # <<>>
           /\ \A i \in DOMAIN actions(Game) :
                 /\ actions(Game)[i].type = "DecideMerge"
                 /\ players[actions(Game)[i].player]
                        .stocks[phase.mergers_remaining[1].defunct_chain] >= 1

\* the hands hold no tile whose slot holds a tile
NoPlacedTileInHand ==
    \A id \in Seats : \A i \in DOMAIN players[id].tiles :
        IsEmpty(grid.data[players[id].tiles[i]])

\* C39: every slot of the board is at most once in the bag, the hands and the
\* occupied slots taken together, no player holds a tile whose slot is
\* occupied, and the engine has not aborted
C39_EachTileInOnePlace ==
    /\ \A pt \in Board : Copies(pt) <= 1
    /\ NoPlacedTileInHand
    /\ ~panicked

\* a purchase has ended with the trade-in of the buyer's hand, tiles being on
\* the board, in the hands and in the bag
C39_Witness ==
    /\ last.type = "PurchaseStock"
    /\ tiles # <<>>
    /\ \A id \in Seats : players[id].tiles # <<>>
    /\ Cardinality({pt \in Board : ~IsEmpty(grid.data[pt])}) >= 3

\* C40: in a game of the default six tiles per hand every hand holds six
\* tiles at most, and the engine has not aborted on the subtraction of the
\* hand size from six
C40_HandSizeBound ==
    options.num_tiles = default_num_tiles =>
        /\ \A id \in Seats : Len(players[id].tiles) <= HAND_REFILL_SIZE
        /\ ~panicked

\* in such a game a buyer has drawn and traded in with a full hand
C40_Witness ==
    /\ options.num_tiles = default_num_tiles
    /\ last.type = "PurchaseStock" /\ ~panicked
    /\ Len(players[last.player].tiles) = HAND_REFILL_SIZE
    /\ \E pt \in Board : grid.data[pt] = EmptyPermanentIllegal

====
